---- MODULE Spec2Model ----
(***************************************************************************)
(* A model of the LINE assistant's caching and fallback layer:             *)
(*   - lib/ai.ts          generateAnswer (Gemini key rotation, Groq)       *)
(*   - lib/notion.ts      knowledge cache, system config, chat sessions    *)
(*   - lib/performance.ts the ring buffer of performance records           *)
(* Every async function is a process whose steps are the stretches of code *)
(* between two awaits; the remote services (Notion, Gemini, Groq) and the  *)
(* clock are the environment.                                              *)
(***************************************************************************)
EXTENDS Integers, Sequences, FiniteSets, TLC

VARIABLES
    \* ---- lib/ai.ts ----
    numKeys,                \* GOOGLE_API_KEYS.length
    groqKeySet,             \* GROQ_API_KEY is a non-empty string
    keyOk,                  \* environment: would Gemini accept key i now
    groqOk,                 \* environment: would Groq answer now
    currentGeminiKeyIndex,  \* module-level round-robin index
    ai,                     \* one generateAnswer call per process
    \* ---- the clock and the Notion workspace (environment) ----
    now,                    \* Date.now()
    lastEdited,             \* last_edited_time of each page
    content,                \* the version of each page's blocks
    editCount,              \* history: edits made in Notion so far
    \* ---- lib/notion.ts, knowledge base ----
    pageIds,                \* getNotionPageIds(): NOTION_PAGE_IDS
    notionDataCache,        \* the module-level cache slot
    kn,                     \* one getCachedNotionData / fetchNotionDataDirect
                            \* call per process
    knCalls,                \* history: knowledge-base calls started so far
    settled,                \* history: the order in which the page fetches
                            \* of the fetch under observation settled
    \* ---- lib/notion.ts, chat sessions ----
    sessionDb,              \* NOTION_SESSION_DB_ID is a non-empty string
    remoteSessions,         \* environment: the rows of the session database
    sessionCache,           \* the module-level cache, one entry per user
    localSessionStore,      \* the module-level fallback map
    se,                     \* one getChatSession / updateChatSession call
                            \* per process
    seCalls,                \* history: session calls started so far
    \* ---- lib/notion.ts, system config ----
    configDb,               \* NOTION_CONFIG_DB_ID is a non-empty string
    configRows,             \* environment: the rows of the config database
    systemConfigCache,      \* the module-level cache slot
    cf,                     \* one getSystemConfig / updateSystemConfig call
                            \* per process
    cfCalls,                \* history: config calls started so far
    \* ---- lib/performance.ts ----
    records,                \* the ring buffer
    inserted,               \* history: number of recordPerformance calls
    summary                 \* what the last getMetricsSummary call returned

aiVars   == <<numKeys, groqKeySet, keyOk, groqOk, currentGeminiKeyIndex, ai>>
perfVars == <<records, inserted, summary>>
envVars  == <<now, lastEdited, content, editCount>>
knowVars == <<pageIds, notionDataCache, kn, knCalls, settled>>
sessionVars == <<sessionDb, remoteSessions, sessionCache, localSessionStore, se, seCalls>>
configVars == <<configDb, configRows, systemConfigCache, cf, cfCalls>>
vars     == <<aiVars, perfVars, envVars, knowVars, sessionVars, configVars>>

\* What the calls of one module leave alone.
exceptAI   == <<perfVars, envVars, knowVars, sessionVars, configVars>>
exceptPerf == <<aiVars, envVars, knowVars, sessionVars, configVars>>
exceptKnow == <<aiVars, perfVars, sessionVars, configVars>>
exceptSession == <<aiVars, perfVars, knowVars, lastEdited, content, editCount, configVars>>
exceptConfig == <<aiVars, perfVars, knowVars, lastEdited, content, editCount, sessionVars>>

(***************************************************************************)
(* Bounds of the model.                                                    *)
(***************************************************************************)
MaxKeys    == 3     \* at most this many Gemini keys are configured
NumAiProcs == 2     \* generateAnswer calls that may be in flight together
MaxInserts == 52    \* recordPerformance calls explored
MaxFree    == 3     \* the first MaxFree records are chosen freely, the
                    \* later ones repeat them periodically
MaxPages   == 2     \* at most this many Notion pages are configured
NumKnProcs == 2     \* knowledge-base calls that may be in flight together
MaxKnCalls == 2     \* knowledge-base calls explored
MaxEdits   == 1     \* edits made in Notion
MaxTicks   == 2     \* the clock advances at most this many times
KnowTick   == 1800000   \* one advance of the clock, in ms
MaxUsers   == 1     \* LINE users
NumSeProcs == 2     \* session calls that may be in flight together
MaxSeCalls == 3     \* session calls explored
MaxRows    == 2     \* rows the session database may come to hold
SessionTick == 60000    \* one advance of the clock between session calls
NumCfProcs == 2     \* config calls that may be in flight together
MaxCfCalls == 3     \* config calls explored
MaxConfigRows == 2  \* rows the config database may come to hold
ConfigShort == 60000    \* a short advance of the clock between config calls
ConfigLong == 360000    \* a long advance of the clock between config calls
ConfigBrief == 15000    \* an advance of the clock shorter than the 30 s for
                        \* which a failed config query is remembered

(***************************************************************************)
(*                              lib/ai.ts                                  *)
(***************************************************************************)
AiProcs == 1..NumAiProcs
KeyIdx  == 0..(MaxKeys - 1)

NoResult == [provider |-> "-", modelUsed |-> [name |-> "-", key |-> 0],
             text |-> [kind |-> "-", fallbackError |-> "-"]]

\* A call that has not started. The fields after result are history: the
\* (key, outcome) of each Gemini attempt of the current call, the number of
\* Groq requests it sent, whether its fallback failed, the index and the
\* state of the keys it found on entry, and the key that answered the call
\* before it (-1 if Gemini did not answer that one).
AiIdle == [pc |-> "idle", attempts |-> 0, apiKeyToUse |-> 0, result |-> NoResult,
           calls |-> <<>>, groqCalls |-> 0, groqFailed |-> FALSE, startIdx |-> 0,
           okAtStart |-> [i \in KeyIdx |-> FALSE], prevKey |-> -1]

\* line 82-86: the value returned after a Gemini success. The key number is
\* read from the module-level index when the await resumes.
GeminiResult(idx) ==
    [provider |-> "Gemini", modelUsed |-> [name |-> "GEMINI_MODEL_NAME", key |-> idx + 1],
     text |-> [kind |-> "generated", fallbackError |-> "-"]]

\* line 123-127
GroqResult ==
    [provider |-> "Groq", modelUsed |-> [name |-> "GROQ_MODEL_NAME", key |-> 0],
     text |-> [kind |-> "generated", fallbackError |-> "-"]]

\* line 129-137: the catch block of the Groq attempt.
UnavailableResult(cause) ==
    [provider |-> "Gemini", modelUsed |-> [name |-> "none", key |-> 0],
     text |-> [kind |-> "unavailable", fallbackError |-> cause]]

\* line 100-102 and 129-137: entering the fallback. A missing GROQ_API_KEY
\* throws inside the try block, so the catch block returns at once; otherwise
\* the request is sent and the call awaits it.
EnterGroqUncaught(c) ==
    IF ~groqKeySet
    THEN [c EXCEPT !.pc = "raised", !.groqFailed = TRUE]
    ELSE [c EXCEPT !.pc = "groq", !.groqCalls = @ + 1]

EnterGroq(c) ==
    IF ~groqKeySet
    THEN [c EXCEPT !.pc = "done", !.groqFailed = TRUE,
                   !.result = UnavailableResult("GROQ_API_KEY is missing")]
    ELSE [c EXCEPT !.pc = "groq", !.groqCalls = @ + 1]

\* line 35-78: entry of generateAnswer up to its first await.
AiStart(r) ==
    /\ ai[r].pc \in {"idle", "done"}
    /\ LET c0 == [AiIdle EXCEPT
                    !.startIdx = currentGeminiKeyIndex,
                    !.okAtStart = keyOk,
                    !.prevKey = IF ai[r].pc = "done" /\ ai[r].result.provider = "Gemini"
                                   /\ ai[r].result.text.kind = "generated"
                                THEN ai[r].calls[Len(ai[r].calls)][1] ELSE -1] IN
       ai' = [ai EXCEPT ![r] =
                IF numKeys = 0
                THEN EnterGroq(c0)
                ELSE [c0 EXCEPT !.pc = "gemini", !.apiKeyToUse = currentGeminiKeyIndex]]
    /\ UNCHANGED <<numKeys, groqKeySet, keyOk, groqOk, currentGeminiKeyIndex>>

\* line 78-86: the awaited Gemini request succeeds.
GeminiSuccess(r) ==
    /\ ai[r].pc = "gemini"
    /\ keyOk[ai[r].apiKeyToUse]
    /\ ai' = [ai EXCEPT ![r] =
                [@ EXCEPT !.pc = "done",
                          !.calls = Append(@, <<ai[r].apiKeyToUse, TRUE>>),
                          !.result = GeminiResult(currentGeminiKeyIndex)]]
    /\ UNCHANGED <<numKeys, groqKeySet, keyOk, groqOk, currentGeminiKeyIndex>>

\* line 92: the index after a failed attempt.
NoAdvance(idx) == idx

SkipKey(idx) == (idx + 2) % numKeys

WrapAtMaxKeys(idx) == (idx + 1) % MaxKeys

NextKeyIndex(idx) == (idx + 1) % numKeys

\* line 65: the loop condition, for a call with c.attempts failed attempts.
OneMoreAttempt(c) == c.attempts < numKeys + 1

MoreAttempts(c) == c.attempts < numKeys

\* line 87-98 (and 65-78 of the next iteration): the awaited Gemini request
\* fails; the index advances and either the next key is tried or the loop
\* ends and the fallback is entered.
GeminiFailure(r) ==
    /\ ai[r].pc = "gemini"
    /\ ~keyOk[ai[r].apiKeyToUse]
    /\ LET idx == NextKeyIndex(currentGeminiKeyIndex)
           c1  == [ai[r] EXCEPT !.attempts = @ + 1,
                                !.calls = Append(@, <<ai[r].apiKeyToUse, FALSE>>)]
       IN /\ currentGeminiKeyIndex' = idx
          /\ ai' = [ai EXCEPT ![r] =
                      IF MoreAttempts(c1)
                      THEN [c1 EXCEPT !.apiKeyToUse = idx]
                      ELSE EnterGroq(c1)]
    /\ UNCHANGED <<numKeys, groqKeySet, keyOk, groqOk>>

\* line 106-127: the awaited Groq request succeeds.
GroqSuccess(r) ==
    /\ ai[r].pc = "groq"
    /\ groqOk
    /\ ai' = [ai EXCEPT ![r] = [@ EXCEPT !.pc = "done", !.result = GroqResult]]
    /\ UNCHANGED <<numKeys, groqKeySet, keyOk, groqOk, currentGeminiKeyIndex>>

\* line 129-137: the awaited Groq request fails.
GroqFailure(r) ==
    /\ ai[r].pc = "groq"
    /\ ~groqOk
    /\ ai' = [ai EXCEPT ![r] =
                [@ EXCEPT !.pc = "done", !.groqFailed = TRUE,
                          !.result = UnavailableResult("api error")]]
    /\ UNCHANGED <<numKeys, groqKeySet, keyOk, groqOk, currentGeminiKeyIndex>>

\* Environment: a key runs out of quota or recovers, Groq goes down or up.
GeminiKeyFlips(i) ==
    /\ i < numKeys
    /\ keyOk' = [keyOk EXCEPT ![i] = ~@]
    /\ UNCHANGED <<numKeys, groqKeySet, groqOk, currentGeminiKeyIndex, ai>>

GroqFlips ==
    /\ groqOk' = ~groqOk
    /\ UNCHANGED <<numKeys, groqKeySet, keyOk, currentGeminiKeyIndex, ai>>

NoAiInFlight == \A r \in AiProcs : ai[r].pc \in {"idle", "done", "raised"}

AIInit ==
    /\ numKeys \in 0..MaxKeys
    /\ groqKeySet \in BOOLEAN
    /\ keyOk \in [KeyIdx -> BOOLEAN]
    /\ \A i \in KeyIdx : i >= numKeys => ~keyOk[i]
    /\ groqOk \in BOOLEAN
    /\ currentGeminiKeyIndex = 0
    /\ ai = [r \in AiProcs |-> AiIdle]

AIQuiet ==
    /\ numKeys = 0
    /\ groqKeySet = FALSE
    /\ keyOk = [i \in KeyIdx |-> FALSE]
    /\ groqOk = FALSE
    /\ currentGeminiKeyIndex = 0
    /\ ai = [r \in AiProcs |-> AiIdle]

(***************************************************************************)
(*                    lib/notion.ts: the knowledge base                    *)
(***************************************************************************)
NOTION_DATA_TTL_MS == 3600000

Pages   == 1..MaxPages
KnProcs == 1..NumKnProcs

\* The values NOTION_PAGE_IDS may list: no page, or the pages 1..n in some
\* order.
PageIdLists ==
    { s \in UNION { [1..n -> Pages] : n \in 0..MaxPages } :
        \A p \in 1..Len(s) : \E i \in DOMAIN s : s[i] = p }

\* The same lists with the pages in the order of their numbers.
SortedPageIdLists == { s \in PageIdLists : \A i \in DOMAIN s : s[i] = i }

MinOf(S) == CHOOSE x \in S : \A y \in S : x <= y

MaxOf(S) == CHOOSE x \in S : \A y \in S : y <= x

\* line 12-19: a NotionContext. The title of a page stands for itself.
MkPage(id, slot) ==
    [pageId |-> id, title |-> id, content |-> slot.content,
     lastUpdated |-> slot.lastUpdated, notionLastEdited |-> slot.lastEdited]

\* line 125-127: the text of a snapshot, one tagged segment per page in the
\* order of pages, then the footer with the time of generation.
CombinedContext(pages, isoNow) ==
    [i \in 1..Len(pages) |->
        [kind |-> "page", title |-> pages[i].title, body |-> pages[i].content]]
    \o << [kind |-> "footer", title |-> 0, body |-> isoNow] >>

\* line 114-120: what _fetchNotionData returns when no page is configured.
PlaceholderData(t) ==
    [combinedContext |-> << [kind |-> "No Notion pages configured.", title |-> 0, body |-> 0] >>,
     pages |-> <<>>, fetchedAt |-> t]

NoData  == [combinedContext |-> <<>>, pages |-> <<>>, fetchedAt |-> -1]
\* line 57-67: the cache slot; filled FALSE stands for null. filledAt is
\* history: the time at which the entry was written.
NoCache == [filled |-> FALSE, data |-> NoData, expiresAt |-> 0, notionLastEditedAt |-> 0,
            filledAt |-> 0]

\* One fetchNotionPage call of a fetch: st is "pending" while the call is
\* awaited, then "ok" (a NotionContext was returned) or "null". tries is
\* history: the calls made for this page.
NewSlot == [st |-> "pending", tries |-> 1, lastEdited |-> 0, content |-> 0, lastUpdated |-> 0]

\* A call that has not started. From fetches on the fields are history: the
\* number of _fetchNotionData calls made, where the result came from, whether
\* the staleness check ran, whether one of its metadata calls failed, what
\* it returned (-1: null) and the stored timestamp it was compared with, the cache at entry (kept as long as the
\* call has not started a fetch), whether Notion and the cache slot have been
\* left alone (no edit, no invalidateNotionCache) since the call was entered,
\* and whether the call before this one was a getCachedNotionData that
\* fetched, with Notion and the slot left alone from its entry to the entry
\* of this call; and whether the slot held an entry that had expired when
\* the call was entered; whether invalidateNotionCache has run since this
\* call was entered with the slot not written since (invalidated), and
\* whether that was so when the call was entered (afterInvalidate); the time
\* at which the call was entered (at) and whether the slot was empty then.
\* The locals now, meta, fetchedAt and slots are cleared when
\* the call returns; of a slot, st and tries stay as history.
KnIdle == [op |-> "-", pc |-> "idle", now |-> 0, meta |-> <<>>, slots |-> <<>>,
           fetchedAt |-> 0, result |-> NoData,
           fetches |-> 0, from |-> "-", checked |-> FALSE, metaFailed |-> FALSE,
           latest |-> -1, stored |-> 0,
           cache0 |-> NoCache, quiet |-> FALSE, afterQuietFill |-> FALSE,
           expiredAtEntry |-> FALSE, invalidated |-> FALSE, afterInvalidate |-> FALSE,
           at |-> 0, emptyAtEntry |-> FALSE]

\* The call that process r enters now.
Entered(r, op) ==
    [KnIdle EXCEPT !.op = op, !.now = now, !.cache0 = notionDataCache, !.quiet = TRUE,
                   !.expiredAtEntry = /\ notionDataCache.filled
                                      /\ now >= notionDataCache.expiresAt,
                   !.afterInvalidate = kn[r].invalidated,
                   !.at = now, !.emptyAtEntry = ~notionDataCache.filled,
                   !.afterQuietFill = /\ kn[r].op = "get" /\ kn[r].pc = "done"
                                      /\ kn[r].fetches = 1 /\ kn[r].quiet]

\* line 109-123: entry of _fetchNotionData up to its await: one
\* fetchNotionPage call per configured page, all in flight together.
BeginFetch(c) ==
    [c EXCEPT !.pc = "fetch", !.fetchedAt = now, !.fetches = @ + 1,
              !.cache0 = NoCache,
              !.slots = [i \in 1..Len(pageIds) |-> NewSlot]]

\* line 137-146: entry of getNotionPagesLastEdited: one pages.retrieve per
\* configured page (-1: pending, -2: rejected).
BeginStaleCheck(c) ==
    [c EXCEPT !.pc = "stale", !.checked = TRUE,
              !.meta = [i \in 1..Len(pageIds) |-> -1]]

\* line 169: the slot holds an entry that has not expired at time t.
CacheFreshAtExpiry(t) == notionDataCache.filled /\ t <= notionDataCache.expiresAt

CacheFresh(t) == notionDataCache.filled /\ t < notionDataCache.expiresAt

\* line 165-170 and 183-185: entry of getCachedNotionData.
GetStart(r) ==
    /\ kn[r].pc \in {"idle", "done"}
    /\ kn' = [kn EXCEPT ![r] =
                IF CacheFresh(now)
                THEN BeginStaleCheck(Entered(r, "get"))
                ELSE BeginFetch(Entered(r, "get"))]
    /\ knCalls < MaxKnCalls
    /\ knCalls' = knCalls + 1
    /\ UNCHANGED <<pageIds, notionDataCache, envVars, settled>>

\* line 141-146: one pages.retrieve of the staleness check settles.
MetaSettles(r, i) ==
    /\ kn[r].pc = "stale"
    /\ i \in DOMAIN kn[r].meta
    /\ kn[r].meta[i] = -1
    /\ \E ok \in BOOLEAN :
          kn' = [kn EXCEPT ![r].meta[i] = IF ok THEN lastEdited[pageIds[i]] ELSE -2,
                           ![r].metaFailed = @ \/ ~ok]
    /\ UNCHANGED <<pageIds, notionDataCache, knCalls, envVars, settled>>

\* The newest of the timestamps that were retrieved.
LatestRetrieved(meta) ==
    IF \A i \in DOMAIN meta : meta[i] < 0
    THEN -1
    ELSE MaxOf({ meta[i] : i \in DOMAIN meta })

\* getNotionPagesLastEdited answering with the current time when no page is
\* configured.
LatestEditOrNow(meta) ==
    IF \E i \in DOMAIN meta : meta[i] = -2 THEN -1
    ELSE IF Len(meta) = 0 THEN now + 1
    ELSE MaxOf({ meta[i] : i \in DOMAIN meta })

\* line 139 and 147-152: what getNotionPagesLastEdited returns (-1: null).
LatestEdit(meta) ==
    IF Len(meta) = 0 \/ \E i \in DOMAIN meta : meta[i] = -2
    THEN -1
    ELSE MaxOf({ meta[i] : i \in DOMAIN meta })

\* line 172: is Notion newer than the cache.
IsOlder(latestEdit, cached) == latestEdit # -1 /\ latestEdit < cached.notionLastEditedAt

IsNewer(latestEdit, cached) == latestEdit # -1 /\ latestEdit > cached.notionLastEditedAt

\* line 170-185: getNotionPagesLastEdited has returned. Reading a field of
\* the cache slot when it is null raises a TypeError.
StaleCheckReturns(r) ==
    /\ kn[r].pc = "stale"
    /\ \/ Len(kn[r].meta) = 0
       \/ \E i \in DOMAIN kn[r].meta : kn[r].meta[i] = -2
       \/ \A i \in DOMAIN kn[r].meta : kn[r].meta[i] >= 0
    /\ LET latestEdit == LatestEdit(kn[r].meta)
           c1 == [kn[r] EXCEPT !.meta = <<>>, !.latest = latestEdit,
                               !.stored = notionDataCache.notionLastEditedAt]
       IN IF ~notionDataCache.filled
          THEN /\ kn' = [kn EXCEPT ![r] = [c1 EXCEPT !.pc = "raised"]]
               /\ UNCHANGED notionDataCache
          ELSE IF IsNewer(latestEdit, notionDataCache)
          THEN /\ notionDataCache' = NoCache
               /\ kn' = [kn EXCEPT ![r] = BeginFetch(c1)]
          ELSE /\ kn' = [kn EXCEPT ![r] =
                           [c1 EXCEPT !.pc = "done", !.from = "cache", !.now = 0,
                                      !.result = notionDataCache.data]]
               /\ UNCHANGED notionDataCache
    /\ UNCHANGED <<pageIds, knCalls, envVars, settled>>

\* line 100-103: fetchNotionPage catches the error and returns null.
PageRetried(slot) ==
    IF slot.tries < 2 THEN [slot EXCEPT !.st = "pending", !.tries = @ + 1]
                      ELSE [slot EXCEPT !.st = "null"]

PageFailed(slot) == [slot EXCEPT !.st = "null"]

\* line 74-104: one fetchNotionPage call settles. Its two awaits
\* (pages.retrieve, then pageToMarkdown) are taken in one step: either both
\* succeed and a NotionContext is returned, or one of them throws and the
\* catch block returns null.
PageSettles(r, i) ==
    /\ kn[r].pc = "fetch"
    /\ i \in DOMAIN kn[r].slots
    /\ kn[r].slots[i].st = "pending"
    /\ \E ok \in BOOLEAN :
          LET slot == IF ok
                      THEN [kn[r].slots[i] EXCEPT !.st = "ok",
                                                  !.lastEdited = lastEdited[pageIds[i]],
                                                  !.content = content[pageIds[i]],
                                                  !.lastUpdated = now]
                      ELSE PageFailed(kn[r].slots[i])
          IN kn' = [kn EXCEPT ![r].slots[i] = slot]
    /\ UNCHANGED <<pageIds, notionDataCache, knCalls, envVars>>

\* The pages in the order in which their fetches settled.
PagesAsSettled(c) ==
    LET idx == SelectSeq(settled, LAMBDA i : c.slots[i].st = "ok")
    IN [k \in 1..Len(idx) |-> MkPage(pageIds[idx[k]], c.slots[idx[k]])]

\* line 122-123: (await Promise.all(promises)).filter(p => p !== null): the
\* results stand in the order of the promises, whatever order they settled in.
FetchedPages(c) ==
    LET idx == SelectSeq([i \in 1..Len(c.slots) |-> i], LAMBDA i : c.slots[i].st = "ok")
    IN [k \in 1..Len(idx) |-> MkPage(pageIds[idx[k]], c.slots[idx[k]])]

\* line 114-131: the value _fetchNotionData returns.
FetchedData(c) ==
    IF Len(pageIds) = 0
    THEN PlaceholderData(c.fetchedAt)
    ELSE [combinedContext |-> CombinedContext(FetchedPages(c), now),
          pages |-> FetchedPages(c), fetchedAt |-> c.fetchedAt]

\* line 188-194 and 224-226: the newest last_edited_time of the fetched
\* pages, or the current time when there is none.
TimeOfFill(data) == now

LatestOfPages(data) ==
    IF Len(data.pages) > 0
    THEN MaxOf({ data.pages[i].notionLastEdited : i \in DOMAIN data.pages })
    ELSE now

\* line 196-200 and 228-232: the cache entry written after a fetch; t is the
\* time the expiry is counted from.
FilledCache(data, t) ==
    [filled |-> TRUE, data |-> data, expiresAt |-> t + NOTION_DATA_TTL_MS,
     notionLastEditedAt |-> LatestOfPages(data), filledAt |-> now]

\* The time sampled when call c was entered.
EntryTime(c) == c.now

\* The time at which the fetch of call c has returned.
CompletionTime(c) == now

\* line 166, 198 and 223, 230: the time the expiry of the new entry counts
\* from.
ExpiryBase(c) == IF c.op = "get" THEN c.now ELSE now

\* line 123-131 and 185-203 (getCachedNotionData), 220-235
\* (fetchNotionDataDirect): every fetchNotionPage has settled,
\* _fetchNotionData returns and its caller fills the cache. The expiry counts
\* from the time getCachedNotionData sampled on entry, and from the current
\* time in fetchNotionDataDirect.
FetchReturns(r) ==
    /\ kn[r].pc = "fetch"
    /\ \A i \in DOMAIN kn[r].slots : kn[r].slots[i].st \in {"ok", "null"}
    /\ LET data == FetchedData(kn[r]) IN
          /\ notionDataCache' =
                FilledCache(data, ExpiryBase(kn[r]))
          /\ kn' = [q \in KnProcs |->
                      IF q = r
                      THEN [kn[r] EXCEPT !.pc = "done", !.from = "fetch", !.now = 0,
                                         !.fetchedAt = 0,
                                         !.slots = [i \in DOMAIN @ |->
                                                      [NewSlot EXCEPT !.st = kn[r].slots[i].st,
                                                                      !.tries = kn[r].slots[i].tries]],
                                         !.result = data, !.invalidated = FALSE]
                      ELSE [kn[q] EXCEPT !.invalidated = FALSE]]
    /\ UNCHANGED <<pageIds, knCalls, envVars, settled>>

\* line 211: what invalidateNotionCache leaves in the slot.
Kept(cache) == cache

Invalidated(cache) == NoCache

\* line 210-213
invalidateNotionCache ==
    /\ notionDataCache' = Invalidated(notionDataCache)
    /\ kn' = [r \in KnProcs |-> [kn[r] EXCEPT !.quiet = FALSE, !.invalidated = TRUE]]
    /\ UNCHANGED <<pageIds, knCalls, envVars, settled>>

\* fetchNotionDataDirect going through the cache as getCachedNotionData does.
DirectThroughCache(r) ==
    /\ kn[r].pc \in {"idle", "done"}
    /\ kn' = [kn EXCEPT ![r] =
                IF CacheFresh(now)
                THEN BeginStaleCheck(Entered(r, "direct"))
                ELSE BeginFetch(Entered(r, "direct"))]
    /\ knCalls < MaxKnCalls
    /\ knCalls' = knCalls + 1
    /\ UNCHANGED <<pageIds, notionDataCache, envVars>>

\* line 219-220: entry of fetchNotionDataDirect.
DirectStart(r) ==
    /\ kn[r].pc \in {"idle", "done"}
    /\ kn' = [kn EXCEPT ![r] = BeginFetch(Entered(r, "direct"))]
    /\ knCalls < MaxKnCalls
    /\ knCalls' = knCalls + 1
    /\ UNCHANGED <<pageIds, notionDataCache, envVars>>

NoKnInFlight == \A r \in KnProcs : kn[r].pc \in {"idle", "done", "raised"}

\* Environment: somebody edits a page in Notion.
RemoteEdit(p) ==
    /\ \E i \in DOMAIN pageIds : pageIds[i] = p
    /\ editCount < MaxEdits
    /\ editCount' = editCount + 1
    /\ lastEdited' = [lastEdited EXCEPT ![p] = now]
    /\ content' = [content EXCEPT ![p] = editCount + 1]
    /\ kn' = [r \in KnProcs |-> [kn[r] EXCEPT !.quiet = FALSE]]
    /\ UNCHANGED <<now, pageIds, notionDataCache, knCalls, settled>>

\* Environment: time passes.
Tick(d) ==
    /\ now < MaxTicks * d
    /\ now' = now + d
    /\ UNCHANGED <<lastEdited, content, editCount, knowVars>>

EnvInit ==
    /\ now = 0
    /\ lastEdited = [p \in Pages |-> 0]
    /\ content = [p \in Pages |-> 0]
    /\ editCount = 0

KnowInit(lists) ==
    /\ pageIds \in lists
    /\ notionDataCache = NoCache
    /\ kn = [r \in KnProcs |-> KnIdle]
    /\ knCalls = 0
    /\ settled = <<>>

KnowQuiet ==
    /\ pageIds = <<>>
    /\ notionDataCache = NoCache
    /\ kn = [r \in KnProcs |-> KnIdle]
    /\ knCalls = 0
    /\ settled = <<>>

(***************************************************************************)
(*                     lib/notion.ts: chat sessions                        *)
(***************************************************************************)
SESSION_TTL_MS == 120000

Users   == 1..MaxUsers
SeProcs == 1..NumSeProcs
Modes   == {"AI", "Human"}

\* line 347-352: a ChatSession; pageId 0 stands for an absent pageId.
\* NoSession stands for null.
MkSession(u, mode, lastActive, pageId) ==
    [lineUserId |-> u, mode |-> mode, lastActive |-> lastActive, pageId |-> pageId]

NoSession == [lineUserId |-> 0, mode |-> "-", lastActive |-> -1, pageId |-> 0]

\* line 40-43 and 50: an entry of sessionCache; NoEntry: the map has no
\* entry for the user.
NoEntry == [present |-> FALSE, data |-> NoSession, expiresAt |-> 0]

\* A call that has not started. now is the Date.now() sampled by
\* getChatSession, stamp the timestamp sampled by updateChatSession, found
\* what the getChatSession inside updateChatSession returned. The fields
\* from wrote on are history: where the write went ("remote" or "local"),
\* whether the remote query was sent and whether it failed, and, for a
\* getChatSession, the mode written by the call just before it when that
\* call was an updateChatSession for the same user whose remote write
\* succeeded ("-" otherwise), and likewise the mode written by the call just
\* before it when that call wrote to the local map; at is the time at which
\* the call was entered and entry0 the cache entry of its user at that time;
\* writesBefore is the number of remote writes for the user that had been
\* applied when the call was entered, and lastApplied the mode of the one
\* applied last when the query of the call was answered; settled is, for a
\* call entered while no other call was in flight and no write had gone to
\* the local map, the mode of the remote write applied last ("-"
\* otherwise). served and seen are not history: the database has evaluated
\* the query of the call, and the rows it saw then. sessions is what a
\* getActiveHumanSessions call returned; for such a call, user, afterWrite
\* and afterLocalWrite tell of the updateChatSession call just before it.
SeIdle == [op |-> "-", pc |-> "idle", user |-> 0, mode |-> "-", now |-> 0, stamp |-> 0,
           found |-> NoSession, result |-> NoSession,
           wrote |-> "-", queried |-> FALSE, queryFailed |-> FALSE, afterWrite |-> "-",
           afterLocalWrite |-> "-", at |-> 0, entry0 |-> NoEntry,
           writesBefore |-> 0, lastApplied |-> "-", settled |-> "-",
           served |-> FALSE, seen |-> <<>>, sessions |-> {}]

\* The rows of the session database whose LineUserID equals u.
RowsOf(u) == { i \in DOMAIN remoteSessions : remoteSessions[i].user = u }

\* History: the number of remote writes applied for u so far (every row
\* carries, in applied, the number of the write that touched it last), and
\* the mode that the last of them wrote ("-" when there was none).
WritesApplied(u) ==
    IF RowsOf(u) = {} THEN 0
    ELSE CHOOSE n \in { remoteSessions[i].applied : i \in RowsOf(u) } :
            \A i \in RowsOf(u) : remoteSessions[i].applied <= n

LastAppliedMode(u) ==
    IF RowsOf(u) = {} THEN "-"
    ELSE LET i == CHOOSE j \in RowsOf(u) : remoteSessions[j].applied = WritesApplied(u)
         IN remoteSessions[i].mode

\* The call that process r enters now.
EnteredSe(r, op, u, m) ==
    [SeIdle EXCEPT !.op = op, !.user = u, !.mode = m, !.now = now, !.stamp = now,
                   !.at = now, !.entry0 = sessionCache[u],
                   !.writesBefore = WritesApplied(u),
                   !.settled = IF /\ \A q \in SeProcs : se[q].pc \in {"idle", "done"}
                                  /\ localSessionStore[u] = NoSession
                               THEN LastAppliedMode(u) ELSE "-",
                   !.afterWrite = IF /\ op = "get" /\ se[r].op = "update"
                                     /\ se[r].pc = "done" /\ se[r].wrote = "remote"
                                     /\ se[r].user = u
                                  THEN se[r].mode ELSE "-",
                   !.afterLocalWrite = IF /\ op = "get" /\ se[r].op = "update"
                                          /\ se[r].pc = "done" /\ se[r].wrote = "local"
                                          /\ se[r].user = u
                                       THEN se[r].mode ELSE "-"]

\* line 364-365: the cache holds an unexpired entry for the user.
SessionCacheHeld(u, t) == sessionCache[u].present

SessionCacheHit(u, t) == sessionCache[u].present /\ t < sessionCache[u].expiresAt

\* line 361-371 and 406: getChatSession up to its await or its return, for
\* the call record c; next is where the call goes on once the session is
\* known.
LookupSession(c, next) ==
    IF SessionCacheHit(c.user, c.now)
    THEN [c EXCEPT !.pc = next, !.found = sessionCache[c.user].data]
    ELSE IF sessionDb
    THEN [c EXCEPT !.pc = "query", !.queried = TRUE]
    ELSE [c EXCEPT !.pc = next, !.found = localSessionStore[c.user]]

\* What a call does with the session it was looking for: getChatSession
\* returns it, updateChatSession goes on to write.
AfterLookup(c) ==
    IF c.op = "get" THEN [c EXCEPT !.pc = "done", !.result = c.found, !.now = 0, !.stamp = 0,
                                   !.served = FALSE, !.seen = <<>>]
                    ELSE [c EXCEPT !.pc = "write", !.now = 0,
                                   !.served = FALSE, !.seen = <<>>]

\* line 360-371: entry of getChatSession.
GetSessionStart(r, u) ==
    /\ se[r].pc \in {"idle", "done"}
    /\ seCalls < MaxSeCalls
    /\ seCalls' = seCalls + 1
    /\ LET c == LookupSession(EnteredSe(r, "get", u, "-"), "found")
       IN se' = [se EXCEPT ![r] = IF c.pc = "found" THEN AfterLookup(c) ELSE c]
    /\ UNCHANGED <<now, sessionDb, remoteSessions, sessionCache, localSessionStore>>

\* line 386-394: the session read from row i.
SessionOfRow(u, i) ==
    MkSession(u, remoteSessions[i].mode, remoteSessions[i].lastActive, i)

\* line 381-384: what getChatSession caches and returns when the query finds
\* no row for the user.
DefaultOnMiss(u) == MkSession(u, "AI", now, 0)

NullOnMiss(u) == NoSession

\* line 386: results[0]. The query names no sort, so with several rows for
\* the user the first of the results is whichever the service lists first.
FirstRows(u) == RowsOf(u)

\* line 373-379: the database evaluates the query of call r at some moment
\* between the request and the response; the response carries the rows as
\* they were at that moment.
SessionQueryServed(r) ==
    /\ se[r].pc = "query"
    /\ ~se[r].served
    /\ se' = [se EXCEPT ![r].served = TRUE, ![r].seen = remoteSessions]
    /\ UNCHANGED <<now, sessionDb, remoteSessions, sessionCache, localSessionStore, seCalls>>

\* line 373-386: the rows of the user in the response to the query of call
\* c (the rows as they are now when the query is evaluated as it returns),
\* and the session read from row i of them.
ResponseRows(c) ==
    IF c.served THEN { i \in DOMAIN c.seen : c.seen[i].user = c.user }
                ELSE FirstRows(c.user)

SessionInResponse(c, i) ==
    IF c.served THEN MkSession(c.user, c.seen[i].mode, c.seen[i].lastActive, i)
                ELSE SessionOfRow(c.user, i)

\* line 373-406: the databases.query of getChatSession settles. When it
\* succeeds with several rows, results[0] is whichever of them the service
\* lists first. When it fails, the catch block falls through to the local
\* map.
SessionQueryReturns(r) ==
    /\ se[r].pc = "query"
    /\ LET c == se[r]
           u == c.user
       IN \/ /\ ResponseRows(c) = {}
             /\ sessionCache' = [sessionCache EXCEPT ![u] =
                   [present |-> TRUE, data |-> NullOnMiss(u),
                    expiresAt |-> c.now + SESSION_TTL_MS]]
             /\ se' = [se EXCEPT ![r] = AfterLookup([c EXCEPT !.found = NullOnMiss(u)])]
          \/ \E i \in ResponseRows(c) :
                /\ sessionCache' = [sessionCache EXCEPT ![u] =
                      [present |-> TRUE, data |-> SessionInResponse(c, i),
                       expiresAt |-> c.now + SESSION_TTL_MS]]
                /\ se' = [se EXCEPT ![r] =
                            AfterLookup([c EXCEPT !.found = SessionInResponse(c, i),
                                                  !.lastApplied = LastAppliedMode(u)])]
          \/ /\ se' = [se EXCEPT ![r] =
                         AfterLookup([c EXCEPT !.found = localSessionStore[u],
                                               !.queryFailed = TRUE])]
             /\ UNCHANGED sessionCache
    /\ UNCHANGED <<now, sessionDb, remoteSessions, localSessionStore, seCalls>>

\* line 481: the write to the local map.
LocalSetSkipped(u, m, stamp) == localSessionStore

LocalSet(u, m, stamp) == [localSessionStore EXCEPT ![u] = MkSession(u, m, stamp, 0)]

\* line 472-473: after a successful remote write updateChatSession returns
\* before it reaches the write to the local map.
LocalSetAlso(u, m, stamp) == [localSessionStore EXCEPT ![u] = MkSession(u, m, stamp, 0)]

LocalKept(u, m, stamp) == localSessionStore

\* line 445-450 and 480-482: entry of updateChatSession: with a session
\* database, up to the await inside getChatSession or, on a cache hit, up to
\* the await of the write; without one, the write to the local map.
UpdateSessionStart(r, u, m) ==
    /\ se[r].pc \in {"idle", "done"}
    /\ seCalls < MaxSeCalls
    /\ seCalls' = seCalls + 1
    /\ IF sessionDb
       THEN /\ LET c == LookupSession(EnteredSe(r, "update", u, m), "found")
               IN se' = [se EXCEPT ![r] = IF c.pc = "found" THEN AfterLookup(c) ELSE c]
            /\ UNCHANGED localSessionStore
       ELSE /\ se' = [se EXCEPT ![r] =
                        [EnteredSe(r, "update", u, m) EXCEPT !.pc = "done", !.wrote = "local",
                                                            !.now = 0, !.stamp = 0]]
            /\ localSessionStore' = LocalSet(u, m, now)
    /\ UNCHANGED <<now, sessionDb, remoteSessions, sessionCache>>

\* line 452: does the write update a row (or create one).
UpdatesRow(found) == found # NoSession /\ found.pageId # 0

\* line 452-482: the pages.update or pages.create of updateChatSession
\* settles. After a successful write the cache entry of the user is deleted;
\* after a failed one the session goes to the local map.
SessionWriteReturns(r) ==
    /\ se[r].pc = "write"
    /\ LET c == se[r]
           u == c.user
           n == WritesApplied(u) + 1
           row == [user |-> u, mode |-> c.mode, lastActive |-> c.stamp, applied |-> n]
           done == [c EXCEPT !.pc = "done", !.stamp = 0]
       IN \/ /\ IF UpdatesRow(c.found)
                THEN remoteSessions' =
                        [remoteSessions EXCEPT ![c.found.pageId] =
                            [@ EXCEPT !.mode = c.mode, !.lastActive = c.stamp,
                                      !.applied = n]]
                ELSE /\ Len(remoteSessions) < MaxRows
                     /\ remoteSessions' = Append(remoteSessions, row)
             /\ sessionCache' = [sessionCache EXCEPT ![u] = NoEntry]
             /\ se' = [se EXCEPT ![r] = [done EXCEPT !.wrote = "remote"]]
             /\ localSessionStore' = LocalKept(u, c.mode, c.stamp)
          \/ /\ localSessionStore' = LocalSet(u, c.mode, c.stamp)
             /\ se' = [se EXCEPT ![r] = [done EXCEPT !.wrote = "local"]]
             /\ UNCHANGED <<remoteSessions, sessionCache>>
    /\ UNCHANGED <<now, sessionDb, seCalls>>

NoSeInFlight == \A r \in SeProcs : se[r].pc \in {"idle", "done"}

\* line 414-426: the sessions built from the rows that the query with the
\* filter Mode = 'Human' returns, one per row.
NotionHumanSessions ==
    { MkSession(remoteSessions[i].user, "Human", remoteSessions[i].lastActive, i) :
        i \in { j \in DOMAIN remoteSessions : remoteSessions[j].mode = "Human" } }

\* line 433-439: the sessions of the local map in mode Human whose user is
\* not among sessions.
LocalHumanSessions(sessions) ==
    { localSessionStore[u] :
        u \in { v \in Users : /\ localSessionStore[v] # NoSession
                              /\ localSessionStore[v].mode = "Human"
                              /\ ~\E s \in sessions : s.lineUserId = v } }

\* line 409-413 and 432-442: entry of getActiveHumanSessions: with a session
\* database up to the await of the query, without one the whole call.
ActiveSessionsStart(r) ==
    /\ se[r].pc \in {"idle", "done"}
    /\ seCalls < MaxSeCalls
    /\ seCalls' = seCalls + 1
    /\ LET after == se[r].op = "update" /\ se[r].pc = "done"
           c == [SeIdle EXCEPT !.op = "active", !.at = now,
                               !.user = IF after THEN se[r].user ELSE 0,
                               !.afterWrite = IF after /\ se[r].wrote = "remote"
                                              THEN se[r].mode ELSE "-",
                               !.afterLocalWrite = IF after /\ se[r].wrote = "local"
                                                   THEN se[r].mode ELSE "-"]
       IN se' = [se EXCEPT ![r] =
                    IF sessionDb
                    THEN [c EXCEPT !.pc = "list", !.queried = TRUE]
                    ELSE [c EXCEPT !.pc = "done", !.sessions = LocalHumanSessions({})]]
    /\ UNCHANGED <<now, sessionDb, remoteSessions, sessionCache, localSessionStore>>

\* line 414-442: the databases.query of getActiveHumanSessions settles; a
\* failure is logged and the local map alone is listed.
ActiveSessionsQueryReturns(r) ==
    /\ se[r].pc = "list"
    /\ \/ se' = [se EXCEPT ![r].pc = "done",
                           ![r].sessions = NotionHumanSessions
                                           \cup LocalHumanSessions(NotionHumanSessions)]
       \/ se' = [se EXCEPT ![r].pc = "done", ![r].queryFailed = TRUE,
                           ![r].sessions = LocalHumanSessions({})]
    /\ UNCHANGED <<now, sessionDb, remoteSessions, sessionCache, localSessionStore, seCalls>>

SessionInit ==
    /\ sessionDb \in BOOLEAN
    /\ remoteSessions = <<>>
    /\ sessionCache = [u \in Users |-> NoEntry]
    /\ localSessionStore = [u \in Users |-> NoSession]
    /\ se = [r \in SeProcs |-> SeIdle]
    /\ seCalls = 0

SessionQuiet ==
    /\ sessionDb = FALSE
    /\ remoteSessions = <<>>
    /\ sessionCache = [u \in Users |-> NoEntry]
    /\ localSessionStore = [u \in Users |-> NoSession]
    /\ se = [r \in SeProcs |-> SeIdle]
    /\ seCalls = 0

(***************************************************************************)
(*                     lib/notion.ts: system config                        *)
(***************************************************************************)
SYSTEM_CONFIG_TTL_MS == 300000
CONFIG_ERROR_TTL_MS  == 30000

CfProcs      == 1..NumCfProcs
ConfigKeys   == {"AI_ENABLED", "AUTO_SWITCH_MINUTES"}
ConfigValues == {"true", "5"}
ConfigTicks  == {ConfigShort, ConfigLong}

\* line 284-289: the value stored under a key: 'true' and 'false' become
\* booleans, a numeric text under AUTO_SWITCH_MINUTES a number, anything
\* else stays the text.
ParseValue(key, value) ==
    IF value \in {"true", "false"} THEN [type |-> "boolean", text |-> value]
    ELSE IF value \in {"5"} /\ key = "AUTO_SWITCH_MINUTES" THEN [type |-> "number", text |-> value]
    ELSE [type |-> "string", text |-> value]

Undefined == [type |-> "undefined", text |-> ""]

\* line 268-296: the config object built from the rows of a query; a later
\* row of a key overwrites an earlier one.
RECURSIVE ConfigOfRows(_)
ConfigOfRows(rows) ==
    IF Len(rows) = 0
    THEN [isNull |-> FALSE, vals |-> [k \in ConfigKeys |-> Undefined]]
    ELSE LET before == ConfigOfRows(SubSeq(rows, 1, Len(rows) - 1))
             last   == rows[Len(rows)]
         IN [before EXCEPT !.vals[last.key] = ParseValue(last.key, last.value)]

NullConfig == [isNull |-> TRUE, vals |-> [k \in ConfigKeys |-> Undefined]]

\* line 46: the cache slot; filled FALSE stands for null.
NoConfigCache == [filled |-> FALSE, data |-> NullConfig, expiresAt |-> 0]

\* line 305: the expiry of the entry cached after a failed query.
ExpiredAtOnce(t) == t

ErrorExpiry(t) == t + CONFIG_ERROR_TTL_MS

\* line 299: the expiry of the entry cached after a successful query.
ConfigExpiry(t) == t + SYSTEM_CONFIG_TTL_MS

\* line 257
ConfigCacheMiss(t) == FALSE

ConfigCacheHeld(t) == systemConfigCache.filled

ConfigCacheHit(t) == systemConfigCache.filled /\ t < systemConfigCache.expiresAt

\* A call that has not started. at, queries and queryFailed are history: the
\* time at which the call was entered, the store queries it sent and whether
\* its query failed; prev holds these three for the call just before when
\* that call was a getSystemConfig that returned (valid); entry0 is the
\* cache slot as it was when the call was entered; settled is, for a call
\* entered while no other call was in flight, the config that the rows of
\* the database gave then (null otherwise). served and seen are not
\* history: the database has evaluated the query of the call, and the rows
\* it saw then.
NoPrev == [valid |-> FALSE, at |-> 0, queries |-> 0, failed |-> FALSE]

CfIdle == [op |-> "-", pc |-> "idle", now |-> 0, key |-> "-", value |-> "-", found |-> 0,
           result |-> NullConfig, at |-> 0, queries |-> 0, queryFailed |-> FALSE,
           prev |-> NoPrev, entry0 |-> NoConfigCache, settled |-> NullConfig,
           served |-> FALSE, seen |-> <<>>]

\* The call that process r enters now.
EnteredCf(r, op) ==
    [CfIdle EXCEPT !.op = op, !.at = now, !.entry0 = systemConfigCache,
                   !.settled = IF \A q \in CfProcs : cf[q].pc \in {"idle", "done", "raised"}
                               THEN ConfigOfRows(configRows) ELSE NullConfig,
                   !.prev = IF op = "get" /\ cf[r].op = "get" /\ cf[r].pc = "done"
                            THEN [valid |-> TRUE, at |-> cf[r].at, queries |-> cf[r].queries,
                                  failed |-> cf[r].queryFailed]
                            ELSE NoPrev]

\* line 252 and 311: if (!NOTION_CONFIG_DB_ID) return
ConfigNeverDisabled == FALSE

ConfigDisabled == ~configDb

\* line 251-265: entry of getSystemConfig.
GetConfigStart(r) ==
    /\ cf[r].pc \in {"idle", "done", "raised"}
    /\ cfCalls < MaxCfCalls
    /\ cfCalls' = cfCalls + 1
    /\ LET c == EnteredCf(r, "get")
       IN cf' = [cf EXCEPT ![r] =
                    IF ConfigDisabled THEN [c EXCEPT !.pc = "done"]
                    ELSE IF ConfigCacheHit(now)
                    THEN [c EXCEPT !.pc = "done", !.result = systemConfigCache.data]
                    ELSE [c EXCEPT !.pc = "query", !.now = now, !.queries = 1]]
    /\ UNCHANGED <<now, configDb, configRows, systemConfigCache>>

\* line 265-267: the database evaluates the query of call r at some moment
\* between the request and the response; the response carries the rows as
\* they were at that moment.
ConfigQueryServed(r) ==
    /\ cf[r].pc = "query"
    /\ ~cf[r].served
    /\ cf' = [cf EXCEPT ![r].served = TRUE, ![r].seen = configRows]
    /\ UNCHANGED <<now, configDb, configRows, systemConfigCache, cfCalls>>

\* line 265-267: response.results of the query of call c (the rows as they
\* are now when the query is evaluated as it returns).
ConfigResponseRows(c) == IF c.served THEN c.seen ELSE configRows

\* line 265-307: the databases.query of getSystemConfig settles.
ConfigQueryReturns(r) ==
    /\ cf[r].pc = "query"
    /\ \/ LET result == ConfigOfRows(ConfigResponseRows(cf[r]))
          IN /\ systemConfigCache' =
                   [filled |-> TRUE, data |-> result, expiresAt |-> ConfigExpiry(cf[r].now)]
             /\ cf' = [cf EXCEPT ![r] = [@ EXCEPT !.pc = "done", !.result = result, !.now = 0,
                                                  !.served = FALSE, !.seen = <<>>]]
       \/ /\ systemConfigCache' =
                [filled |-> TRUE, data |-> NullConfig, expiresAt |-> ErrorExpiry(cf[r].now)]
          /\ cf' = [cf EXCEPT ![r] = [@ EXCEPT !.pc = "done", !.result = NullConfig,
                                               !.queryFailed = TRUE, !.now = 0,
                                               !.served = FALSE, !.seen = <<>>]]
    /\ UNCHANGED <<now, configDb, configRows, cfCalls>>

\* line 310-319: entry of updateSystemConfig.
UpdateConfigStart(r, key, value) ==
    /\ cf[r].pc \in {"idle", "done", "raised"}
    /\ cfCalls < MaxCfCalls
    /\ cfCalls' = cfCalls + 1
    /\ LET c == [EnteredCf(r, "update") EXCEPT !.key = key, !.value = value]
       IN cf' = [cf EXCEPT ![r] = IF ConfigDisabled THEN [c EXCEPT !.pc = "done"]
                                              ELSE [c EXCEPT !.pc = "lookup"]]
    /\ UNCHANGED <<now, configDb, configRows, systemConfigCache>>

\* The rows of the config database whose Key equals key.
ConfigRowsOf(key) == { i \in DOMAIN configRows : configRows[i].key = key }

\* line 313-323: the filtered databases.query of updateSystemConfig settles:
\* results[0] is whichever matching row the service lists first (0: there is
\* none). A rejection leaves the function as an exception.
UpdateConfigLookupReturns(r) ==
    /\ cf[r].pc = "lookup"
    /\ \/ /\ ConfigRowsOf(cf[r].key) = {}
          /\ cf' = [cf EXCEPT ![r].pc = "write", ![r].found = 0]
       \/ \E i \in ConfigRowsOf(cf[r].key) :
             cf' = [cf EXCEPT ![r].pc = "write", ![r].found = i]
       \/ cf' = [cf EXCEPT ![r].pc = "raised"]
    /\ UNCHANGED <<now, configDb, configRows, systemConfigCache, cfCalls>>

\* line 323-343: the pages.update or pages.create of updateSystemConfig
\* settles; after a successful write the cache slot is set to null.
UpdateConfigWriteReturns(r) ==
    /\ cf[r].pc = "write"
    /\ \/ /\ IF cf[r].found > 0
             THEN configRows' = [configRows EXCEPT ![cf[r].found].value = cf[r].value]
             ELSE /\ Len(configRows) < MaxConfigRows
                  /\ configRows' = Append(configRows, [key |-> cf[r].key, value |-> cf[r].value])
          /\ systemConfigCache' = NoConfigCache
          /\ cf' = [cf EXCEPT ![r].pc = "done", ![r].found = 0]
       \/ /\ cf' = [cf EXCEPT ![r].pc = "raised", ![r].found = 0]
          /\ UNCHANGED <<configRows, systemConfigCache>>
    /\ UNCHANGED <<now, configDb, cfCalls>>

NoCfInFlight == \A r \in CfProcs : cf[r].pc \in {"idle", "done", "raised"}

ConfigInit ==
    /\ configDb \in BOOLEAN
    /\ configRows = <<>>
    /\ systemConfigCache = NoConfigCache
    /\ cf = [r \in CfProcs |-> CfIdle]
    /\ cfCalls = 0

ConfigQuiet ==
    /\ configDb = FALSE
    /\ configRows = <<>>
    /\ systemConfigCache = NoConfigCache
    /\ cf = [r \in CfProcs |-> CfIdle]
    /\ cfCalls = 0

(***************************************************************************)
(*                          lib/performance.ts                             *)
(***************************************************************************)
RING_BUFFER_SIZE == 50

\* The measurements a request may report (PerformanceRecord without its
\* timestamp).
Measurements ==
    { [notionCacheHit |-> TRUE,  notionMs |-> 1, aiMs |-> 2, totalMs |-> 4],
      [notionCacheHit |-> FALSE, notionMs |-> 4, aiMs |-> 3, totalMs |-> 8],
      [notionCacheHit |-> FALSE, notionMs |-> 7, aiMs |-> 2, totalMs |-> 9] }

\* A PerformanceRecord; seq is history, the number of the insert that
\* recorded it.
MkRecord(n, m) ==
    [seq |-> n, notionCacheHit |-> m.notionCacheHit, notionMs |-> m.notionMs,
     aiMs |-> m.aiMs, totalMs |-> m.totalMs]

\* line 37-39: records.shift() when the buffer is full.
EvictWhenOver(recs) == IF Len(recs) > RING_BUFFER_SIZE THEN Tail(recs) ELSE recs

Evict(recs) == IF Len(recs) >= RING_BUFFER_SIZE THEN Tail(recs) ELSE recs

\* line 36-41
recordPerformance(record) ==
    /\ records' = Append(Evict(records), record)
    /\ inserted' = inserted + 1

RecordOne ==
    /\ inserted < MaxInserts
    /\ UNCHANGED summary
    /\ \E m \in Measurements :
          /\ inserted >= MaxFree =>
                LET prev == records[Len(records) + 1 - MaxFree] IN
                m = [notionCacheHit |-> prev.notionCacheHit, notionMs |-> prev.notionMs,
                     aiMs |-> prev.aiMs, totalMs |-> prev.totalMs]
          /\ recordPerformance(MkRecord(inserted + 1, m))
    /\ UNCHANGED exceptPerf

\* line 86: the number of records in recentRecords.
RECENT_RECORDS == 20

RECURSIVE SumOf(_)
SumOf(arr) == IF arr = <<>> THEN 0 ELSE Head(arr) + SumOf(Tail(arr))

\* line 75-76: avg: Math.round of the mean (a half rounds up), 0 for an
\* empty array.
avg(arr) ==
    IF Len(arr) = 0 THEN 0 ELSE (2 * SumOf(arr) + Len(arr)) \div (2 * Len(arr))

\* line 72-73: the two filters.
EveryRecord(recs) == recs

CacheHits(recs) == SelectSeq(recs, LAMBDA r : r.notionCacheHit)

CacheMisses(recs) == SelectSeq(recs, LAMBDA r : ~r.notionCacheHit)

Reversed(recs) == [i \in 1..Len(recs) |-> recs[Len(recs) + 1 - i]]

FirstOf(recs, n) == SubSeq(recs, 1, IF Len(recs) < n THEN Len(recs) ELSE n)

\* line 86: [...records].reverse().slice(0, 20)
OldestFirst(recs) == FirstOf(recs, RECENT_RECORDS)

RecentRecords(recs) == FirstOf(Reversed(recs), RECENT_RECORDS)

\* line 60-69: the summary of an empty buffer. cacheHitRate is a quotient
\* of two counts; it is kept as the fraction num / den.
EmptySummary ==
    [totalRequests |-> 0, cacheHitCount |-> 0, cacheMissCount |-> 0,
     cacheHitRate |-> [num |-> 0, den |-> 1],
     avgNotionMs |-> 0, avgAiMs |-> 0, avgTotalMs |-> 0, recentRecords |-> <<>>]

\* line 57-88
getMetricsSummary(recs) ==
    LET total == Len(recs)
        cacheHits == CacheHits(recs)
        cacheMisses == CacheMisses(recs)
    IN IF total = 0
       THEN EmptySummary
       ELSE [totalRequests |-> total,
             cacheHitCount |-> Len(cacheHits),
             cacheMissCount |-> Len(cacheMisses),
             cacheHitRate |-> [num |-> Len(cacheHits), den |-> total],
             avgNotionMs |-> avg([i \in 1..Len(cacheMisses) |-> cacheMisses[i].notionMs]),
             avgAiMs |-> avg([i \in 1..Len(recs) |-> recs[i].aiMs]),
             avgTotalMs |-> avg([i \in 1..Len(recs) |-> recs[i].totalMs]),
             recentRecords |-> RecentRecords(recs)]

\* A getMetricsSummary call; at is history, the number of inserts made when
\* the summary was taken.
Summarize ==
    /\ summary.at # inserted
    /\ summary' = [value |-> getMetricsSummary(records), at |-> inserted]
    /\ UNCHANGED <<records, inserted>>
    /\ UNCHANGED exceptPerf

PerfInit ==
    /\ records = <<>>
    /\ inserted = 0
    /\ summary = [value |-> EmptySummary, at |-> -1]

(***************************************************************************)
(*                     Claims about generateAnswer                         *)
(***************************************************************************)
AllPrimaryFailed(c) ==
    /\ Len(c.calls) = numKeys
    /\ \A j \in 1..Len(c.calls) : ~c.calls[j][2]

\* C1: generateAnswer never raises to its caller: whatever the primary keys
\* and the fallback do (no key at all and no GROQ_API_KEY included), no call
\* ends in an exception, and a call that has ended has returned an
\* AiResponse (text, modelUsed, provider).
C1_NeverRaises ==
    \A r \in AiProcs :
        /\ ai[r].pc # "raised"
        /\ ai[r].pc = "done" =>
              /\ ai[r].result.provider \in {"Gemini", "Groq"}
              /\ ai[r].result.text.kind \in {"generated", "unavailable"}
              /\ ai[r].result.modelUsed.name \in
                    {"GEMINI_MODEL_NAME", "GROQ_MODEL_NAME", "none"}

\* The call with no Gemini key and no Groq key has returned its diagnostic.
C1_Witness ==
    /\ numKeys = 0 /\ ~groqKeySet
    /\ ai[1].pc = "done"
    /\ ai[1].result.text.kind = "unavailable"

\* C2 (as claimed): when every primary attempt of a call failed (or there is
\* no primary key) and the fallback failed too, the returned provider is
\* 'none', neither the primary nor the secondary provider.
C2_ProviderNone ==
    \A r \in AiProcs :
        (ai[r].pc = "done" /\ AllPrimaryFailed(ai[r]) /\ ai[r].groqFailed)
            => ai[r].result.provider \notin {"Gemini", "Groq"}

\* The first key of the list that the keys' state at entry lets succeed,
\* counted from the index found at entry.
FirstOkDistance(c) ==
    CHOOSE k \in 0..(numKeys - 1) :
        /\ c.okAtStart[(c.startIdx + k) % numKeys]
        /\ \A j \in 0..(k - 1) : ~c.okAtStart[(c.startIdx + j) % numKeys]

\* C3: with n keys and one call at a time, if the first key that succeeds is
\* k positions after the round-robin index, the call makes exactly k+1 Gemini
\* attempts (the k failing keys in order, then the succeeding one), returns
\* provider Gemini, and leaves the index at the key that succeeded; the next
\* call's first attempt uses that key.
C3_RoundRobin ==
    \A r \in {1} :
        /\ (ai[r].pc = "done" /\ numKeys > 0
              /\ \E i \in 0..(numKeys - 1) : ai[r].okAtStart[i])
            => LET c == ai[r]
                   k == FirstOkDistance(c)
               IN /\ Len(c.calls) = k + 1
                  /\ \A j \in 1..k :
                        c.calls[j] = <<(c.startIdx + j - 1) % numKeys, FALSE>>
                  /\ c.calls[k + 1] = <<(c.startIdx + k) % numKeys, TRUE>>
                  /\ c.result.provider = "Gemini"
                  /\ c.result.text.kind = "generated"
                  /\ c.groqCalls = 0
                  /\ currentGeminiKeyIndex = (c.startIdx + k) % numKeys
        /\ (ai[r].pc = "gemini" /\ ai[r].calls = <<>> /\ ai[r].prevKey # -1)
            => ai[r].apiKeyToUse = ai[r].prevKey

\* Three keys of which only the third works, index 0 on entry: the call has
\* ended after three attempts.
C3_Witness ==
    /\ numKeys = 3
    /\ ai[1].pc = "done"
    /\ ai[1].startIdx = 0
    /\ ai[1].okAtStart = [i \in KeyIdx |-> i = 2]
    /\ Len(ai[1].calls) = 3
    /\ currentGeminiKeyIndex = 2

\* The Gemini requests call c has sent, and all its provider requests.
PrimaryAttempts(c) == Len(c.calls) + (IF c.pc = "gemini" THEN 1 ELSE 0)

ProviderCalls(c) == PrimaryAttempts(c) + c.groqCalls

\* The bounds on the requests of the calls, as a predicate on one state.
C19_Bounded ==
    \A r \in AiProcs :
        LET c == ai[r]
        IN /\ PrimaryAttempts(c) <= numKeys
           /\ c.groqCalls <= 1
           /\ (c.groqCalls = 1 \/ c.pc = "groq" \/ c.groqFailed) => AllPrimaryFailed(c)
           /\ ProviderCalls(c) <= numKeys + 1

\* C19: a generateAnswer call sends at most as many Gemini requests as there
\* are keys and at most one Groq request, the Groq request only once every
\* key has failed in this call (or there is no key), that is at most
\* numKeys + 1 provider requests; and when every awaited request resolves or
\* rejects, a call that has started returns.
C19_BoundedAndTerminates ==
    /\ []C19_Bounded
    /\ \A r \in AiProcs : (ai[r].pc \in {"gemini", "groq"}) ~> (ai[r].pc = "done")

\* Every key has failed and Groq has been asked: numKeys + 1 requests.
C19_Witness ==
    /\ numKeys = 3
    /\ ai[1].pc = "done"
    /\ PrimaryAttempts(ai[1]) = 3
    /\ ai[1].groqCalls = 1
    /\ ai[1].result.provider = "Groq"

\* A step in which call r gets the answer to a Gemini request: ok tells
\* whether the request succeeded.
GeminiAnswered(r, ok) ==
    /\ ai[r].pc = "gemini"
    /\ Len(ai'[r].calls) = Len(ai[r].calls) + 1
    /\ ai'[r].calls[Len(ai'[r].calls)][2] = ok

\* C20: the round-robin index changes only in a step in which a Gemini
\* request fails, and then to the next index modulo the number of keys; the
\* steps of a Gemini success, of the Groq request and of the start of a call
\* leave it as it is.
C20_IndexFrame ==
    [][ /\ (\E r \in AiProcs : GeminiAnswered(r, FALSE))
            => currentGeminiKeyIndex' = (currentGeminiKeyIndex + 1) % numKeys
        /\ ~(\E r \in AiProcs : GeminiAnswered(r, FALSE))
            => currentGeminiKeyIndex' = currentGeminiKeyIndex ]_vars

\* A call entered with the index at the last of three keys: that key has
\* failed, the index has wrapped to the first key, which has answered.
C20_Witness ==
    /\ numKeys = 3
    /\ ai[1].pc = "done"
    /\ ai[1].startIdx = 2
    /\ ai[1].calls = << <<2, FALSE>>, <<0, TRUE>> >>
    /\ currentGeminiKeyIndex = 0

(***************************************************************************)
(*                     Claims about the ring buffer                        *)
(***************************************************************************)
HoldsSeq(n) == \E i \in 1..Len(records) : records[i].seq = n

\* C9: after any sequence of recordPerformance calls the buffer holds at most
\* 50 records; after 51 inserts the first inserted record is absent and the
\* 51st is present.
C9_RingBuffer ==
    /\ Len(records) <= 50
    /\ inserted = 51 => (~HoldsSeq(1) /\ HoldsSeq(51))

\* 51 records have been inserted into the buffer.
C9_Witness ==
    /\ inserted = 51
    /\ Len(records) = 50
    /\ records[1].seq = 2

\* The records at the places I of the buffer, and the sum of one of their
\* measurements.
RECURSIVE SumAt(_, _)
SumAt(I, f) ==
    IF I = {} THEN 0
    ELSE LET i == CHOOSE j \in I : TRUE IN records[i][f] + SumAt(I \ {i}, f)

\* a is the mean sum / n rounded to the nearest integer, a half rounding up.
IsRoundedMean(a, sum, n) == 2 * a * n - n <= 2 * sum /\ 2 * sum < 2 * a * n + n

\* C23: a summary taken of the buffer as it stands has count = number of
\* records = hits + misses, hitRate = hits / count (0 for an empty buffer),
\* avgNotionMs the rounded mean of notionMs over the cache-miss records (0
\* when there is none), and avgAiMs and avgTotalMs the rounded means over all
\* records.
C23_SummaryOfBuffer ==
    summary.at = inserted =>
        LET v == summary.value
            all == DOMAIN records
            hits == { i \in all : records[i].notionCacheHit }
            misses == all \ hits
        IN /\ v.totalRequests = Len(records)
           /\ v.cacheHitCount = Cardinality(hits)
           /\ v.cacheMissCount = Cardinality(misses)
           /\ v.totalRequests = v.cacheHitCount + v.cacheMissCount
           /\ v.cacheHitRate.den > 0
           /\ IF all = {} THEN v.cacheHitRate.num = 0
              ELSE v.cacheHitRate.num * Len(records) = Cardinality(hits) * v.cacheHitRate.den
           /\ IF misses = {} THEN v.avgNotionMs = 0
              ELSE IsRoundedMean(v.avgNotionMs, SumAt(misses, "notionMs"), Cardinality(misses))
           /\ IF all = {} THEN v.avgAiMs = 0 /\ v.avgTotalMs = 0
              ELSE /\ IsRoundedMean(v.avgAiMs, SumAt(all, "aiMs"), Len(records))
                   /\ IsRoundedMean(v.avgTotalMs, SumAt(all, "totalMs"), Len(records))

\* A summary of a buffer with hits and several misses, whose mean fetch
\* time is not a whole number.
C23_Witness ==
    /\ summary.at = inserted
    /\ summary.value.cacheHitCount >= 1
    /\ summary.value.cacheMissCount >= 2
    /\ LET misses == { i \in DOMAIN records : ~records[i].notionCacheHit }
       IN summary.value.avgNotionMs * Cardinality(misses) # SumAt(misses, "notionMs")

\* C24: recentRecords of a summary taken of the buffer as it stands are the
\* min(20, count) records inserted last, the newest first; and the buffer
\* always holds the last min(k, 50) of the k records inserted so far, in the
\* order of their insertion.
C24_RecentAndFifo ==
    /\ Len(records) = (IF inserted < RING_BUFFER_SIZE THEN inserted ELSE RING_BUFFER_SIZE)
    /\ \A i \in DOMAIN records : records[i].seq = inserted - Len(records) + i
    /\ summary.at = inserted =>
          LET recent == summary.value.recentRecords
          IN /\ Len(recent) = (IF Len(records) < 20 THEN Len(records) ELSE 20)
             /\ \A j \in DOMAIN recent :
                   /\ recent[j] = records[Len(records) + 1 - j]
                   /\ recent[j].seq = inserted + 1 - j

\* A summary of a buffer that has evicted records: twenty recent records,
\* the last insert first.
C24_Witness ==
    /\ summary.at = inserted
    /\ inserted > RING_BUFFER_SIZE
    /\ Len(summary.value.recentRecords) = 20
    /\ summary.value.recentRecords[1].seq = inserted
    /\ summary.value.recentRecords[20].seq = inserted - 19

(***************************************************************************)
(*                           Specifications                                *)
(***************************************************************************)
\* generateAnswer calls one after the other; the providers change state only
\* between two calls.
NextAISeq ==
    \/ \E r \in {1} : NoAiInFlight /\ AiStart(r) /\ UNCHANGED exceptAI
    \/ \E r \in {1} : GeminiSuccess(r) /\ UNCHANGED exceptAI
    \/ \E r \in {1} : GeminiFailure(r) /\ UNCHANGED exceptAI
    \/ \E r \in {1} : GroqSuccess(r) /\ UNCHANGED exceptAI
    \/ \E r \in {1} : GroqFailure(r) /\ UNCHANGED exceptAI
    \/ \E i \in KeyIdx : NoAiInFlight /\ GeminiKeyFlips(i) /\ UNCHANGED exceptAI
    \/ NoAiInFlight /\ GroqFlips /\ UNCHANGED exceptAI

InitAI == AIInit /\ PerfInit /\ EnvInit /\ KnowQuiet /\ SessionQuiet /\ ConfigQuiet

SpecAI == InitAI /\ [][NextAISeq]_vars

\* A provider request that is awaited resolves or rejects.
AiResponds(r) ==
    (GeminiSuccess(r) \/ GeminiFailure(r) \/ GroqSuccess(r) \/ GroqFailure(r))
    /\ UNCHANGED exceptAI

\* The same calls, every provider request being answered in the end.
SpecAILive == InitAI /\ [][NextAISeq]_vars /\ \A r \in {1} : WF_vars(AiResponds(r))

NextPerf == RecordOne

\* Any sequence of recordPerformance and getMetricsSummary calls.
NextMetrics ==
    \/ RecordOne
    \/ Summarize

InitMetrics == AIQuiet /\ PerfInit /\ EnvInit /\ KnowQuiet /\ SessionQuiet /\ ConfigQuiet

SpecMetrics == InitMetrics /\ [][NextMetrics]_vars

InitPerf == AIQuiet /\ PerfInit /\ EnvInit /\ KnowQuiet /\ SessionQuiet /\ ConfigQuiet

SpecPerf == InitPerf /\ [][NextPerf]_vars

(***************************************************************************)
(*                       Claims on the knowledge base                      *)
(***************************************************************************)
\* C4: of two getCachedNotionData calls one after the other, the second
\* entered within the TTL of the entry the first one stored and with no edit
\* in Notion and no invalidation since the first was entered, the second
\* makes no content fetch and returns the snapshot the first one stored,
\* whichever page fetches of the first call failed.
C4_SecondCallFetchesNothing ==
    \A r \in KnProcs :
        (/\ kn[r].op = "get" /\ kn[r].pc \in {"fetch", "done"}
         /\ kn[r].afterQuietFill /\ kn[r].quiet /\ kn[r].checked)
        => /\ kn[r].fetches = 0
           /\ kn[r].result = kn[r].cache0.data

\* C5: a getCachedNotionData call that finds an unexpired entry and whose
\* staleness check returns a timestamp newer than the stored one empties the
\* slot, makes exactly one content fetch, returns what that fetch produced
\* and leaves it in the slot.
C5_RefetchWhenNewer ==
    \A r \in KnProcs :
        (/\ kn[r].op = "get" /\ kn[r].checked
         /\ kn[r].latest # -1 /\ kn[r].latest > kn[r].stored)
        => /\ kn[r].pc \in {"fetch", "done"}
           /\ kn[r].fetches = 1
           /\ kn[r].pc = "fetch" => notionDataCache = NoCache
           /\ kn[r].pc = "done" =>
                 /\ kn[r].from = "fetch"
                 /\ kn[r].quiet => /\ notionDataCache.filled
                                   /\ notionDataCache.data = kn[r].result

C5_Witness ==
    \E r \in KnProcs :
        /\ kn[r].op = "get" /\ kn[r].pc = "done" /\ kn[r].checked /\ kn[r].quiet
        /\ kn[r].latest # -1 /\ kn[r].latest > kn[r].stored
        /\ kn[r].fetches = 1
        /\ notionDataCache.data = kn[r].result
        /\ Len(kn[r].result.pages) > 0

\* C6: a getCachedNotionData call that finds an unexpired entry and one of
\* whose metadata calls fails makes no content fetch, returns the cached
\* snapshot and leaves the slot as it was.
C6_FailedCheckKeepsCache ==
    \A r \in KnProcs :
        (kn[r].op = "get" /\ kn[r].checked /\ kn[r].metaFailed /\ kn[r].pc # "stale")
        => /\ kn[r].pc = "done"
           /\ kn[r].fetches = 0
           /\ kn[r].from = "cache"
           /\ kn[r].cache0.filled
           /\ kn[r].result = kn[r].cache0.data
           /\ kn[r].quiet => notionDataCache = kn[r].cache0

\* The failed check of the witness hides an edit: a page of the cached
\* snapshot has been edited since.
C6_Witness ==
    \E r \in KnProcs :
        /\ kn[r].op = "get" /\ kn[r].pc = "done" /\ kn[r].checked /\ kn[r].metaFailed
        /\ kn[r].from = "cache"
        /\ notionDataCache = kn[r].cache0
        /\ \E i \in DOMAIN kn[r].result.pages :
              lastEdited[kn[r].result.pages[i].pageId] > kn[r].result.pages[i].notionLastEdited

\* C26: with no page id configured, no call sends a request or raises; a
\* fetch returns the placeholder text with an empty list of pages; the
\* staleness check returns null; and a getCachedNotionData call that finds
\* an unexpired entry makes no fetch, returns the cached snapshot and leaves
\* the slot as it was.
C26_NoPagesConfigured ==
    Len(pageIds) = 0 =>
        \A r \in KnProcs :
            LET c == kn[r] IN
            /\ c.pc # "raised"
            /\ c.slots = <<>> /\ c.meta = <<>> /\ ~c.metaFailed
            /\ (c.pc = "done" /\ c.from = "fetch") =>
                  /\ c.result.pages = <<>>
                  /\ c.result.combinedContext =
                        << [kind |-> "No Notion pages configured.", title |-> 0, body |-> 0] >>
            /\ (c.checked /\ c.pc # "stale") => c.latest = -1
            /\ (c.op = "get" /\ c.pc # "idle" /\ ~c.emptyAtEntry /\ ~c.expiredAtEntry) =>
                  /\ c.checked
                  /\ c.fetches = 0
                  /\ c.pc = "done" =>
                        /\ c.from = "cache"
                        /\ c.result = c.cache0.data
                        /\ c.result.pages = <<>>
                        /\ c.quiet => notionDataCache = c.cache0

\* With no page configured, a call made some time after the placeholder
\* snapshot was stored has been served from the cache.
C26_Witness ==
    \E r \in KnProcs :
        /\ Len(pageIds) = 0
        /\ kn[r].op = "get" /\ kn[r].pc = "done" /\ kn[r].checked
        /\ kn[r].from = "cache"
        /\ kn[r].result.pages = <<>> /\ kn[r].result.combinedContext # <<>>
        /\ notionDataCache.filled /\ notionDataCache.data = kn[r].result
        /\ kn[r].at > notionDataCache.filledAt

\* C27: the staleness check sends one metadata request per configured page
\* and no content request; when all of them are answered it returns the
\* newest of the pages' last_edited_time, and when one of them fails it
\* returns null.
C27_NewestOfMetadata ==
    \A r \in KnProcs :
        LET c == kn[r] IN
        /\ c.pc = "stale" =>
              /\ Len(c.meta) = Len(pageIds)
              /\ c.slots = <<>> /\ c.fetches = 0
        /\ (c.checked /\ c.pc # "stale" /\ c.quiet /\ Len(pageIds) > 0) =>
              IF c.metaFailed
              THEN c.latest = -1
              ELSE /\ \E i \in DOMAIN pageIds : c.latest = lastEdited[pageIds[i]]
                   /\ \A i \in DOMAIN pageIds : lastEdited[pageIds[i]] <= c.latest

\* Two pages with different timestamps, the newer one configured first.
C27_Witness ==
    \E r \in KnProcs :
        /\ kn[r].checked /\ kn[r].pc = "done" /\ kn[r].quiet /\ ~kn[r].metaFailed
        /\ Len(pageIds) = 2
        /\ lastEdited[pageIds[1]] > lastEdited[pageIds[2]]
        /\ kn[r].latest = lastEdited[pageIds[1]]

\* The place of page p in the configured list.
PlaceOf(p) == CHOOSE i \in DOMAIN pageIds : pageIds[i] = p

\* C7: the pages of a fetched snapshot, and their segments in the combined
\* text, stand in the order of the configured page ids, whatever order the
\* page fetches settled in.
C7_ConfiguredOrder ==
    \A r \in KnProcs :
        (kn[r].pc = "done" /\ kn[r].from = "fetch" /\ Len(pageIds) > 0)
        => LET pages == kn[r].result.pages
               text  == kn[r].result.combinedContext
           IN /\ \A j, k \in DOMAIN pages :
                    j < k => PlaceOf(pages[j].pageId) < PlaceOf(pages[k].pageId)
              /\ Len(text) = Len(pages) + 1
              /\ \A j \in DOMAIN pages :
                    text[j].kind = "page" /\ text[j].title = pages[j].title
              /\ text[Len(text)].kind = "footer"

\* Both pages fetched, the one configured second settling first.
C7_Witness ==
    \E r \in KnProcs :
        /\ kn[r].pc = "done" /\ kn[r].from = "fetch"
        /\ pageIds = <<2, 1>>
        /\ settled = <<2, 1>>
        /\ Len(kn[r].result.pages) = 2

\* The page ids of the page fetches that returned a page, in configured order.
SucceededIds(c) ==
    LET idx == SelectSeq([i \in 1..Len(c.slots) |-> i], LAMBDA i : c.slots[i].st = "ok")
    IN [k \in 1..Len(idx) |-> pageIds[idx[k]]]

\* C8: a content fetch never raises; it makes one fetchNotionPage call per
\* configured page and no second one for a page that failed, and its
\* snapshot holds exactly the pages whose call succeeded, in configured order.
C8_FailSoft ==
    \A r \in KnProcs :
        /\ kn[r].pc # "raised"
        /\ kn[r].pc = "fetch" =>
              /\ Len(kn[r].slots) = Len(pageIds)
              /\ \A i \in DOMAIN kn[r].slots : kn[r].slots[i].tries = 1
        /\ (kn[r].pc = "done" /\ kn[r].from = "fetch") =>
              /\ Len(kn[r].slots) = Len(pageIds)
              /\ \A i \in DOMAIN kn[r].slots : kn[r].slots[i].tries = 1
              /\ [k \in DOMAIN kn[r].result.pages |-> kn[r].result.pages[k].pageId]
                    = SucceededIds(kn[r])

\* A fetch over two pages of which the first failed.
C8_Witness ==
    \E r \in KnProcs :
        /\ kn[r].pc = "done" /\ kn[r].from = "fetch"
        /\ Len(pageIds) = 2
        /\ kn[r].slots[1].st = "null" /\ kn[r].slots[2].st = "ok"
        /\ Len(kn[r].result.pages) = 1

C16_InvalidateForcesFetch ==
    \A r \in KnProcs :
        /\ kn[r].invalidated => notionDataCache = NoCache
        /\ (kn[r].op = "get" /\ kn[r].afterInvalidate)
              => /\ ~kn[r].checked
                 /\ kn[r].pc \in {"fetch", "done"}
                 /\ kn[r].fetches = 1
                 /\ kn[r].pc = "done" => kn[r].from = "fetch"

\* The second call of a run, entered after an invalidation that came within
\* the TTL of the entry the first call stored.
C16_Witness ==
    \E r \in KnProcs :
        /\ kn[r].op = "get" /\ kn[r].pc = "done" /\ kn[r].afterInvalidate
        /\ kn[r].from = "fetch"
        /\ knCalls = 2
        /\ now < NOTION_DATA_TTL_MS
        /\ notionDataCache.data = kn[r].result

\* Knowledge-base calls one after the other. Notion is edited and the clock
\* advances (by half an hour at a time) between two calls; whether a remote
\* request of a call succeeds is open each time.
NextKnowSeq ==
    \/ \E r \in {1} : NoKnInFlight /\ GetStart(r) /\ UNCHANGED exceptKnow
    \/ \E r \in {1} : NoKnInFlight /\ DirectStart(r) /\ UNCHANGED <<settled, exceptKnow>>
    \/ \E r \in {1}, i \in 1..MaxPages : MetaSettles(r, i) /\ UNCHANGED exceptKnow
    \/ \E r \in {1} : StaleCheckReturns(r) /\ UNCHANGED exceptKnow
    \/ \E r \in {1}, i \in 1..MaxPages :
            PageSettles(r, i) /\ UNCHANGED <<settled, exceptKnow>>
    \/ \E r \in {1} : FetchReturns(r) /\ UNCHANGED exceptKnow
    \/ NoKnInFlight /\ invalidateNotionCache /\ UNCHANGED exceptKnow
    \/ \E p \in Pages : NoKnInFlight /\ RemoteEdit(p) /\ UNCHANGED exceptKnow
    \/ NoKnInFlight /\ Tick(KnowTick) /\ UNCHANGED exceptKnow

InitKnow == AIQuiet /\ PerfInit /\ EnvInit /\ KnowInit(SortedPageIdLists) /\ SessionQuiet /\ ConfigQuiet

SpecKnow == InitKnow /\ [][NextKnowSeq]_vars

\* One content fetch (through fetchNotionDataDirect) over any list of page
\* ids, the page fetches settling in any order with any outcome; Notion is
\* edited at any moment.
NextFetch ==
    \/ \E r \in {1} : NoKnInFlight /\ DirectStart(r) /\ settled' = <<>>
                       /\ UNCHANGED exceptKnow
    \/ \E r \in {1}, i \in 1..MaxPages :
            PageSettles(r, i) /\ settled' = Append(settled, i) /\ UNCHANGED exceptKnow
    \/ \E r \in {1} : FetchReturns(r) /\ UNCHANGED exceptKnow
    \/ \E p \in Pages : RemoteEdit(p) /\ UNCHANGED exceptKnow

InitFetch == AIQuiet /\ PerfInit /\ EnvInit /\ KnowInit(PageIdLists) /\ SessionQuiet /\ ConfigQuiet

SpecFetch == InitFetch /\ [][NextFetch]_vars

(***************************************************************************)
(*                      Claims on the chat sessions                        *)
(***************************************************************************)
\* C10: once updateChatSession(u, m) has returned after a successful remote
\* write, the session cache has no entry for u, and the getChatSession(u)
\* that comes next returns a session whose mode is m.
C10_ReadSeesWrite ==
    \A r \in SeProcs :
        /\ (se[r].op = "update" /\ se[r].pc = "done" /\ se[r].wrote = "remote")
              => ~sessionCache[se[r].user].present
        /\ (se[r].op = "get" /\ se[r].pc = "done" /\ se[r].afterWrite # "-")
              => se[r].result # NoSession /\ se[r].result.mode = se[r].afterWrite

\* C11: with no session database configured, a getChatSession(u) that comes
\* directly after updateChatSession(u, m) returns the session of mode m that
\* the local map holds for u, and sends no remote query.
C11_LocalReadSeesWrite ==
    \A r \in SeProcs :
        (~sessionDb /\ se[r].op = "get" /\ se[r].pc = "done" /\ se[r].afterLocalWrite # "-")
        => /\ se[r].result # NoSession
           /\ se[r].result.mode = se[r].afterLocalWrite
           /\ se[r].result.lineUserId = se[r].user
           /\ se[r].result = localSessionStore[se[r].user]
           /\ ~se[r].queried

\* The read follows a write of the other mode than
\* the default one.
C11_Witness ==
    \E r \in SeProcs :
        /\ ~sessionDb /\ se[r].op = "get" /\ se[r].pc = "done"
        /\ se[r].afterLocalWrite = "Human"
        /\ se[r].result.mode = "Human"

\* The cache held an unexpired entry for the user when call c was entered.
HitAtEntry(c) == c.entry0.present /\ c.at < c.entry0.expiresAt

\* C13: a getChatSession that finds an unexpired cache entry returns it and
\* sends no query; otherwise, with a session database, it sends the query
\* and, when the query succeeds, returns what the query gave (null when no
\* row matches) and caches it for 2 minutes from its entry; it returns what
\* the local map holds (null when nothing) exactly when the query failed or
\* no database is configured, and then leaves the cache entry as it was.
C13_ResolutionOrder ==
    \A r \in SeProcs :
        (se[r].op = "get" /\ se[r].pc = "done")
        => LET c == se[r]
               u == c.user
           IN /\ HitAtEntry(c) =>
                    /\ ~c.queried
                    /\ c.result = c.entry0.data
                    /\ sessionCache[u] = c.entry0
              /\ (~HitAtEntry(c) /\ sessionDb) => c.queried
              /\ (~HitAtEntry(c) /\ sessionDb /\ ~c.queryFailed) =>
                    /\ IF RowsOf(u) = {} THEN c.result = NoSession
                       ELSE \E i \in RowsOf(u) : c.result = SessionOfRow(u, i)
                    /\ sessionCache[u] =
                          [present |-> TRUE, data |-> c.result,
                           expiresAt |-> c.at + SESSION_TTL_MS]
              /\ (~HitAtEntry(c) /\ (~sessionDb \/ c.queryFailed)) =>
                    /\ c.result = localSessionStore[u]
                    /\ sessionCache[u] = c.entry0
              /\ ~sessionDb => ~c.queried

\* The cache holds an expired entry for the user, the query is sent and
\* the row it gives is returned and cached anew.
C13_Witness ==
    \E r \in SeProcs :
        /\ se[r].op = "get" /\ se[r].pc = "done"
        /\ se[r].entry0.present /\ se[r].at >= se[r].entry0.expiresAt
        /\ se[r].queried /\ ~se[r].queryFailed
        /\ se[r].result # NoSession
        /\ sessionCache[se[r].user].data = se[r].result
        /\ sessionCache[se[r].user].expiresAt > se[r].entry0.expiresAt

\* C14: the session database never holds more than one row for a user.
C14_OneRowPerUser ==
    \A u \in Users : Cardinality(RowsOf(u)) <= 1

\* C22: with a session database, when the pages.update or pages.create of
\* updateChatSession(u, m) fails, the call returns (nothing is raised), the
\* database is as it was and the local map holds {u, m, its timestamp}, no
\* pageId, for u and is otherwise unchanged; when the write succeeds the
\* local map is left as it was.
C22_FallbackOnFailure ==
    [][\A r \in SeProcs :
          (sessionDb /\ se[r].pc = "write" /\ se'[r] # se[r])
          => /\ se'[r].pc = "done"
             /\ se'[r].wrote \in {"remote", "local"}
             /\ (se'[r].wrote = "local") <=> (remoteSessions' = remoteSessions)
             /\ IF remoteSessions' = remoteSessions
                THEN localSessionStore' =
                        [localSessionStore EXCEPT ![se[r].user] =
                            [lineUserId |-> se[r].user, mode |-> se[r].mode,
                             lastActive |-> se[r].stamp, pageId |-> 0]]
                ELSE localSessionStore' = localSessionStore]_vars

\* A remote write has failed and the local map holds the session in the
\* mode that was asked for, the database holding a row of the other mode.
C22_Witness ==
    \E r \in SeProcs :
        /\ sessionDb /\ se[r].op = "update" /\ se[r].pc = "done"
        /\ se[r].wrote = "local" /\ se[r].mode = "Human"
        /\ localSessionStore[se[r].user].mode = "Human"
        /\ \E i \in RowsOf(se[r].user) : remoteSessions[i].mode = "AI"

\* C37: with a session database, a getChatSession(u) that directly follows
\* an updateChatSession(u, m) whose remote write failed, so that m went to
\* the local map, returns a session of mode m.
C37_FallbackWriteIsRead ==
    \A r \in SeProcs :
        (/\ sessionDb /\ se[r].op = "get" /\ se[r].pc = "done"
         /\ se[r].afterLocalWrite # "-")
        => /\ se[r].result # NoSession
           /\ se[r].result.mode = se[r].afterLocalWrite

\* A getChatSession for a user of whom neither the database (which answered
\* the query) nor the local map holds a session.
MissedLookup(c) ==
    /\ c.op = "get" /\ c.pc = "done"
    /\ localSessionStore[c.user] = NoSession
    /\ sessionDb => (c.queried /\ ~c.queryFailed /\ RowsOf(c.user) = {})

\* A step changes what is stored for user u: the rows of u in the database
\* or the entry of u in the local map.
StoredChanges(u) ==
    \/ { remoteSessions'[i] : i \in { j \in DOMAIN remoteSessions' : remoteSessions'[j].user = u } }
          # { remoteSessions[i] : i \in RowsOf(u) }
    \/ localSessionStore'[u] # localSessionStore[u]

\* A stored session of user u is changed only by a step in which an
\* updateChatSession(u, m) call returns, and the step stores mode m.
OnlyToggleStores ==
    \A u \in Users :
        StoredChanges(u) =>
            \E r \in SeProcs :
                /\ se'[r].op = "update" /\ se'[r].user = u /\ se'[r].pc = "done"
                /\ IF se'[r].wrote = "local"
                   THEN /\ localSessionStore'[u].mode = se'[r].mode
                        /\ se[r].pc \in {"idle", "done", "write"}
                   ELSE \E i \in DOMAIN remoteSessions' :
                           /\ se'[r] # se[r]
                           /\ remoteSessions'[i].user = u
                           /\ remoteSessions'[i].mode = se'[r].mode
                           /\ remoteSessions'[i].applied = WritesApplied(u) + 1

NextSessionSeq ==
    \/ \E r \in {1}, u \in Users :
            NoSeInFlight /\ GetSessionStart(r, u) /\ UNCHANGED exceptSession
    \/ \E r \in {1}, u \in Users, m \in Modes :
            NoSeInFlight /\ UpdateSessionStart(r, u, m) /\ UNCHANGED exceptSession
    \/ \E r \in {1} : SessionQueryReturns(r) /\ UNCHANGED exceptSession
    \/ \E r \in {1} : SessionWriteReturns(r) /\ UNCHANGED exceptSession
    \/ NoSeInFlight /\ Tick(SessionTick)
                    /\ UNCHANGED <<aiVars, perfVars, sessionVars, configVars>>

InitSession == AIQuiet /\ PerfInit /\ EnvInit /\ KnowQuiet /\ SessionInit /\ ConfigQuiet

SpecSession == InitSession /\ [][NextSessionSeq]_vars

\* C21: once two updateChatSession calls for one user have completed with
\* successful remote writes, a getChatSession for that user entered
\* afterwards whose query is answered returns the mode of the write that was
\* applied to the session database last.
C21_LastWriteWins ==
    \A r \in SeProcs :
        (/\ se[r].op = "get" /\ se[r].pc = "done"
         /\ se[r].queried /\ ~se[r].queryFailed
         /\ se[r].writesBefore >= 2)
        => se[r].result # NoSession /\ se[r].result.mode = se[r].lastApplied

\* Session calls of several requests interleaved at their awaits, the clock
\* advancing at any moment; whether a remote request succeeds is open each
\* time.
NextSessionPar ==
    \/ \E r \in SeProcs, u \in Users : GetSessionStart(r, u) /\ UNCHANGED exceptSession
    \/ \E r \in SeProcs, u \in Users, m \in Modes :
            UpdateSessionStart(r, u, m) /\ UNCHANGED exceptSession
    \/ \E r \in SeProcs : SessionQueryServed(r) /\ UNCHANGED exceptSession
    \/ \E r \in SeProcs : SessionQueryReturns(r) /\ UNCHANGED exceptSession
    \/ \E r \in SeProcs : SessionWriteReturns(r) /\ UNCHANGED exceptSession
    \/ Tick(SessionTick) /\ UNCHANGED <<aiVars, perfVars, sessionVars, configVars>>

\* C34: a getChatSession entered while no call is in flight, after remote
\* writes have been applied (none to the local map), that is answered from
\* the cache returns the mode of the write applied last: a read that was in
\* flight during the write has not put the session of before the write back
\* into the cache. Stated for a user with one row.
C34_NoStaleRepopulation ==
    \A r \in SeProcs :
        (/\ sessionDb /\ se[r].op = "get" /\ se[r].pc = "done"
         /\ ~se[r].queried
         /\ se[r].settled # "-"
         /\ Cardinality(RowsOf(se[r].user)) <= 1)
        => se[r].result.mode = se[r].settled

InitSessionPar == AIQuiet /\ PerfInit /\ EnvInit /\ KnowQuiet /\ SessionInit /\ ConfigQuiet

SpecSessionPar == InitSessionPar /\ [][NextSessionPar]_vars

(***************************************************************************)
(*                      Claims on the system config                        *)
(***************************************************************************)
\* C12 as stated: of two getSystemConfig calls one directly after the other,
\* the first of which queried the store, the second sends no query when it
\* is entered less than the 5-minute TTL after the first (1 minute), and
\* one query when it is entered a TTL or more after it (6 minutes).
C12_OneQueryPerTTL ==
    \A r \in CfProcs :
        (/\ configDb /\ cf[r].op = "get" /\ cf[r].pc = "done"
         /\ cf[r].prev.valid /\ cf[r].prev.queries = 1)
        => /\ cf[r].at - cf[r].prev.at < SYSTEM_CONFIG_TTL_MS => cf[r].queries = 0
           /\ cf[r].at - cf[r].prev.at >= SYSTEM_CONFIG_TTL_MS => cf[r].queries = 1

\* C12 amended: the same, when the query of the first call succeeded.
C12_OneQueryPerTTLAfterSuccess ==
    \A r \in CfProcs :
        (/\ configDb /\ cf[r].op = "get" /\ cf[r].pc = "done"
         /\ cf[r].prev.valid /\ cf[r].prev.queries = 1 /\ ~cf[r].prev.failed)
        => /\ cf[r].at - cf[r].prev.at < SYSTEM_CONFIG_TTL_MS => cf[r].queries = 0
           /\ cf[r].at - cf[r].prev.at >= SYSTEM_CONFIG_TTL_MS => cf[r].queries = 1

\* The second call comes a short advance of the clock after the first and
\* is served from the cache.
C12_Witness ==
    \E r \in CfProcs :
        /\ configDb /\ cf[r].op = "get" /\ cf[r].pc = "done"
        /\ cf[r].prev.valid /\ cf[r].prev.queries = 1 /\ ~cf[r].prev.failed
        /\ cf[r].at - cf[r].prev.at = ConfigShort
        /\ cf[r].queries = 0
        /\ ~cf[r].result.isNull

\* C25: with no config database configured, every getSystemConfig call
\* returns null at once, no call sends a request, nothing is raised, and the
\* cache slot and the database stay as they were: updateSystemConfig does
\* nothing.
C25_NoStoreIsNull ==
    ~configDb =>
        /\ systemConfigCache = NoConfigCache
        /\ configRows = <<>>
        /\ \A r \in CfProcs :
              /\ cf[r].pc \in {"idle", "done"}
              /\ cf[r].queries = 0
              /\ (cf[r].op = "get" /\ cf[r].pc = "done") => cf[r].result.isNull

\* Without a config database, a getSystemConfig that follows an
\* updateSystemConfig has returned null.
C25_Witness ==
    \E r \in CfProcs :
        /\ ~configDb /\ cfCalls >= 2
        /\ cf[r].op = "get" /\ cf[r].pc = "done" /\ ~cf[r].prev.valid
        /\ cf[r].result = NullConfig

\* C28: a getSystemConfig call entered at or after the expiry of the entry
\* in the config slot, and a getChatSession call (also the one inside
\* updateChatSession) entered at or after the expiry of the cache entry of
\* its user, does not return that entry: it sends its query and returns what
\* the query gives (for a session, the local map when the query fails). The
\* expired entry stays stored until the call overwrites it.
C28_ExpiredIsAbsent ==
    /\ \A r \in CfProcs :
          LET c == cf[r] IN
          (/\ configDb /\ c.op = "get" /\ c.pc # "idle"
           /\ c.entry0.filled /\ c.entry0.expiresAt <= c.at)
          => /\ c.queries = 1
             /\ c.pc = "query" => systemConfigCache = c.entry0
             /\ c.pc = "done" =>
                   /\ c.result = (IF c.queryFailed THEN NullConfig
                                                   ELSE ConfigOfRows(configRows))
                   /\ systemConfigCache.filled
                   /\ systemConfigCache.expiresAt > c.at
                   /\ systemConfigCache.data = c.result
    /\ \A r \in SeProcs :
          LET c == se[r] IN
          (/\ sessionDb /\ c.pc # "idle"
           /\ c.entry0.present /\ c.entry0.expiresAt <= c.at)
          => /\ c.queried
             /\ c.pc = "query" => sessionCache[c.user] = c.entry0
             /\ (c.op = "get" /\ c.pc = "done") =>
                   IF c.queryFailed
                   THEN c.result = localSessionStore[c.user]
                   ELSE /\ IF RowsOf(c.user) = {} THEN c.result = NoSession
                           ELSE \E i \in RowsOf(c.user) : c.result = SessionOfRow(c.user, i)
                        /\ sessionCache[c.user].data = c.result
                        /\ sessionCache[c.user].expiresAt > c.at

\* An expired entry that holds a config is in the slot; the query of the
\* call fails, and the call returns null, not the config of the entry.
C28_Witness ==
    \E r \in CfProcs :
        /\ configDb /\ cf[r].op = "get" /\ cf[r].pc = "done"
        /\ cf[r].entry0.filled /\ cf[r].entry0.expiresAt <= cf[r].at
        /\ ~cf[r].entry0.data.isNull
        /\ cf[r].queryFailed
        /\ cf[r].result = NullConfig

\* Config calls one after the other, the clock advancing between them;
\* whether a remote request succeeds is open each time.
NextConfigSeq ==
    \/ \E r \in {1} : NoCfInFlight /\ GetConfigStart(r) /\ UNCHANGED exceptConfig
    \/ \E r \in {1} : ConfigQueryReturns(r) /\ UNCHANGED exceptConfig
    \/ \E r \in {1}, k \in ConfigKeys, v \in ConfigValues :
            NoCfInFlight /\ UpdateConfigStart(r, k, v) /\ UNCHANGED exceptConfig
    \/ \E r \in {1} : UpdateConfigLookupReturns(r) /\ UNCHANGED exceptConfig
    \/ \E r \in {1} : UpdateConfigWriteReturns(r) /\ UNCHANGED exceptConfig
    \/ \E d \in ConfigTicks :
            NoCfInFlight /\ Tick(d) /\ UNCHANGED <<aiVars, perfVars, sessionVars, configVars>>

InitConfig == AIQuiet /\ PerfInit /\ EnvInit /\ KnowQuiet /\ SessionQuiet /\ ConfigInit

SpecConfig == InitConfig /\ [][NextConfigSeq]_vars

\* The two caches, each with its database configured, under calls made one
\* after the other with the clock advancing between them.
NextCaches ==
    \/ sessionDb /\ NextSessionSeq
    \/ configDb /\ NextConfigSeq

InitCaches ==
    /\ AIQuiet /\ PerfInit /\ EnvInit /\ KnowQuiet
    /\ \/ SessionInit /\ sessionDb /\ ConfigQuiet
       \/ SessionQuiet /\ ConfigInit /\ configDb

SpecCaches == InitCaches /\ [][NextCaches]_vars

\* The newest last_edited_time among the pages of a snapshot that has pages.
NewestOf(data) == MaxOf({ data.pages[i].notionLastEdited : i \in DOMAIN data.pages })

NextKnowTimed ==
    \/ \E r \in {1} : NoKnInFlight /\ GetStart(r) /\ UNCHANGED exceptKnow
    \/ \E r \in {1} : NoKnInFlight /\ DirectStart(r) /\ UNCHANGED <<settled, exceptKnow>>
    \/ \E r \in {1}, i \in 1..MaxPages : MetaSettles(r, i) /\ UNCHANGED exceptKnow
    \/ \E r \in {1} : StaleCheckReturns(r) /\ UNCHANGED exceptKnow
    \/ \E r \in {1}, i \in 1..MaxPages :
            PageSettles(r, i) /\ UNCHANGED <<settled, exceptKnow>>
    \/ \E r \in {1} : FetchReturns(r) /\ UNCHANGED exceptKnow
    \/ \E p \in Pages : NoKnInFlight /\ RemoteEdit(p) /\ UNCHANGED exceptKnow
    \/ Tick(KnowTick) /\ UNCHANGED exceptKnow

InitKnowTimed ==
    AIQuiet /\ PerfInit /\ EnvInit /\ KnowInit(SortedPageIdLists) /\ SessionQuiet /\ ConfigQuiet

SpecKnowTimed == InitKnowTimed /\ [][NextKnowTimed]_vars

\* C30: with getCachedNotionData and invalidateNotionCache calls interleaved
\* at their awaits, no getCachedNotionData call fails: a call that found the
\* entry within its TTL and awaits the staleness check returns a snapshot
\* when it resumes, also when the slot was emptied in the meantime.
C30_ResumeReturnsSnapshot ==
    \A r \in KnProcs :
        (kn[r].op = "get" /\ kn[r].checked /\ kn[r].pc \notin {"stale", "fetch"}) =>
            /\ kn[r].pc = "done"
            /\ kn[r].result # NoData

\* Knowledge-base calls interleaved at their awaits: a second
\* getCachedNotionData may be entered, the cache invalidated and a page
\* edited in Notion while a call awaits Notion.
NextKnowPar ==
    \/ \E r \in KnProcs : GetStart(r) /\ UNCHANGED exceptKnow
    \/ \E r \in KnProcs, i \in 1..MaxPages : MetaSettles(r, i) /\ UNCHANGED exceptKnow
    \/ \E r \in KnProcs : StaleCheckReturns(r) /\ UNCHANGED exceptKnow
    \/ \E r \in KnProcs, i \in 1..MaxPages :
            PageSettles(r, i) /\ UNCHANGED <<settled, exceptKnow>>
    \/ \E r \in KnProcs : FetchReturns(r) /\ UNCHANGED exceptKnow
    \/ invalidateNotionCache /\ UNCHANGED exceptKnow
    \/ \E p \in Pages : RemoteEdit(p) /\ UNCHANGED exceptKnow

InitKnowPar ==
    AIQuiet /\ PerfInit /\ EnvInit /\ KnowInit(SortedPageIdLists) /\ SessionQuiet /\ ConfigQuiet

SpecKnowPar == InitKnowPar /\ [][NextKnowPar]_vars

\* C31: a call entered while some configured key works is answered by
\* Gemini, also when other generateAnswer calls are interleaved with it.
C31_WorkingKeyIsFound ==
    \A r \in AiProcs :
        (/\ ai[r].pc = "done"
         /\ \E i \in KeyIdx : i < numKeys /\ ai[r].okAtStart[i]) =>
            /\ ai[r].result.provider = "Gemini"
            /\ ai[r].result.text.kind = "generated"

\* C32: with at least one key configured the module-level index is a
\* position of GOOGLE_API_KEYS in every state, and so is the key of every
\* Gemini attempt in flight.
C32_IndexInRange ==
    numKeys > 0 =>
        /\ currentGeminiKeyIndex \in 0..(numKeys - 1)
        /\ \A r \in AiProcs :
              ai[r].pc = "gemini" => ai[r].apiKeyToUse \in 0..(numKeys - 1)

\* Two calls are in flight, the index has wrapped around to 0 and one of the
\* calls is trying the last key.
C32_Witness ==
    /\ numKeys > 1
    /\ currentGeminiKeyIndex = 0
    /\ \A r \in AiProcs : ai[r].pc = "gemini"
    /\ \E r \in AiProcs : ai[r].attempts > 0
    /\ \E r \in AiProcs : ai[r].apiKeyToUse = numKeys - 1

\* C33: the key number in modelUsed of a Gemini answer is the number of the
\* key whose request succeeded.
C33_ReportedKeyIsUsedKey ==
    \A r \in AiProcs :
        (/\ ai[r].pc = "done"
         /\ ai[r].result.provider = "Gemini"
         /\ ai[r].result.text.kind = "generated") =>
            ai[r].result.modelUsed.key = ai[r].calls[Len(ai[r].calls)][1] + 1

\* generateAnswer calls interleaved at their awaits. Which keys work, and
\* whether Groq does, is open at the start and stays as it is, so that a key
\* works or fails for a whole call.
NextAIPar ==
    \/ \E r \in AiProcs : AiStart(r) /\ UNCHANGED exceptAI
    \/ \E r \in AiProcs : GeminiSuccess(r) /\ UNCHANGED exceptAI
    \/ \E r \in AiProcs : GeminiFailure(r) /\ UNCHANGED exceptAI
    \/ \E r \in AiProcs : GroqSuccess(r) /\ UNCHANGED exceptAI
    \/ \E r \in AiProcs : GroqFailure(r) /\ UNCHANGED exceptAI

InitAIPar == AIInit /\ PerfInit /\ EnvInit /\ KnowQuiet /\ SessionQuiet /\ ConfigQuiet

SpecAIPar == InitAIPar /\ [][NextAIPar]_vars

\* C35: a getSystemConfig entered while no call is in flight that is
\* answered from the cache with a config returns the config that the rows of
\* the database give: after an updateSystemConfig has written, no value read
\* before the write is served from the cache, also when a getSystemConfig
\* was in flight during the update.
C35_NoStaleConfig ==
    \A r \in CfProcs :
        (/\ configDb /\ cf[r].op = "get" /\ cf[r].pc = "done"
         /\ cf[r].queries = 0
         /\ ~cf[r].settled.isNull
         /\ ~cf[r].result.isNull)
        => cf[r].result = cf[r].settled

\* Config calls of several requests interleaved at their awaits, the clock
\* advancing between them.
NextConfigPar ==
    \/ \E r \in CfProcs : GetConfigStart(r) /\ UNCHANGED exceptConfig
    \/ \E r \in CfProcs : ConfigQueryServed(r) /\ UNCHANGED exceptConfig
    \/ \E r \in CfProcs : ConfigQueryReturns(r) /\ UNCHANGED exceptConfig
    \/ \E r \in CfProcs, k \in ConfigKeys, v \in ConfigValues :
            UpdateConfigStart(r, k, v) /\ UNCHANGED exceptConfig
    \/ \E r \in CfProcs : UpdateConfigLookupReturns(r) /\ UNCHANGED exceptConfig
    \/ \E r \in CfProcs : UpdateConfigWriteReturns(r) /\ UNCHANGED exceptConfig
    \/ \E d \in ConfigTicks :
            NoCfInFlight /\ Tick(d) /\ UNCHANGED <<aiVars, perfVars, sessionVars, configVars>>

InitConfigPar == AIQuiet /\ PerfInit /\ EnvInit /\ KnowQuiet /\ SessionQuiet /\ ConfigInit

SpecConfigPar == InitConfigPar /\ [][NextConfigPar]_vars

\* C36: a getSystemConfig whose query fails returns null (nothing is raised)
\* and leaves in the cache slot a null entry that expires 30 s after the
\* call was entered, whatever the slot held before; a getSystemConfig that
\* directly follows it returns null without a query when it is entered less
\* than 30 s after it, and sends a query when it is entered 30 s or more
\* after it.
C36_ErrorCachedBriefly ==
    \A r \in {1} :
        /\ cf[r].pc # "raised" \/ cf[r].op # "get"
        /\ (cf[r].op = "get" /\ cf[r].pc = "done" /\ cf[r].queryFailed) =>
              /\ cf[r].result = NullConfig
              /\ systemConfigCache =
                    [filled |-> TRUE, data |-> NullConfig,
                     expiresAt |-> cf[r].at + CONFIG_ERROR_TTL_MS]
        /\ (/\ cf[r].op = "get" /\ cf[r].pc = "done"
            /\ cf[r].prev.valid /\ cf[r].prev.failed) =>
              /\ cf[r].at - cf[r].prev.at < CONFIG_ERROR_TTL_MS =>
                    cf[r].queries = 0 /\ cf[r].result = NullConfig
              /\ cf[r].at - cf[r].prev.at >= CONFIG_ERROR_TTL_MS => cf[r].queries = 1

\* A call entered a brief advance of the clock after a call whose query
\* failed (that one more than 5 minutes after the start) has found the null
\* entry in the slot and returned null without sending a query.
C36_Witness ==
    \E r \in {1} :
        /\ cf[r].op = "get" /\ cf[r].pc = "done"
        /\ cf[r].prev.valid /\ cf[r].prev.failed
        /\ cf[r].at - cf[r].prev.at = ConfigBrief
        /\ cf[r].queries = 0 /\ cf[r].result = NullConfig
        /\ cf[r].prev.at >= SYSTEM_CONFIG_TTL_MS
        /\ cf[r].entry0.filled /\ cf[r].entry0.data.isNull

\* Environment: a brief time passes while the slot holds the null entry of a
\* failed query, until that entry has expired.
TickBriefly ==
    /\ systemConfigCache.filled /\ systemConfigCache.data.isNull
    /\ now < systemConfigCache.expiresAt
    /\ now' = now + ConfigBrief
    /\ UNCHANGED <<lastEdited, content, editCount, knowVars>>

\* Config calls one after the other, the clock advancing between them by
\* less than the 30 s of the error entry or by more than the 5 minutes of a
\* config entry.
NextConfigErr ==
    \/ \E r \in {1} : NoCfInFlight /\ GetConfigStart(r) /\ UNCHANGED exceptConfig
    \/ \E r \in {1} : ConfigQueryReturns(r) /\ UNCHANGED exceptConfig
    \/ \E r \in {1}, k \in ConfigKeys, v \in ConfigValues :
            NoCfInFlight /\ UpdateConfigStart(r, k, v) /\ UNCHANGED exceptConfig
    \/ \E r \in {1} : UpdateConfigLookupReturns(r) /\ UNCHANGED exceptConfig
    \/ \E r \in {1} : UpdateConfigWriteReturns(r) /\ UNCHANGED exceptConfig
    \/ NoCfInFlight /\ Tick(ConfigLong)
            /\ UNCHANGED <<aiVars, perfVars, sessionVars, configVars>>
    \/ NoCfInFlight /\ TickBriefly
            /\ UNCHANGED <<aiVars, perfVars, sessionVars, configVars>>

InitConfigErr ==
    AIQuiet /\ PerfInit /\ EnvInit /\ KnowQuiet /\ SessionQuiet /\ ConfigInit /\ configDb

SpecConfigErr == InitConfigErr /\ [][NextConfigErr]_vars

\* C38: getActiveHumanSessions lists no user twice, and a call that directly
\* follows a completed updateChatSession(u, 'AI') does not list u.
C38_HumanSessionsExact ==
    \A r \in SeProcs :
        (se[r].op = "active" /\ se[r].pc = "done") =>
            /\ \A s, t \in se[r].sessions : s.lineUserId = t.lineUserId => s = t
            /\ (se[r].afterWrite = "AI" \/ se[r].afterLocalWrite = "AI") =>
                  \A s \in se[r].sessions : s.lineUserId # se[r].user

\* Session calls one after the other, getActiveHumanSessions among them.
NextSessionList ==
    \/ \E r \in {1}, u \in Users :
            NoSeInFlight /\ GetSessionStart(r, u) /\ UNCHANGED exceptSession
    \/ \E r \in {1}, u \in Users, m \in Modes :
            NoSeInFlight /\ UpdateSessionStart(r, u, m) /\ UNCHANGED exceptSession
    \/ \E r \in {1} : NoSeInFlight /\ ActiveSessionsStart(r) /\ UNCHANGED exceptSession
    \/ \E r \in {1} : SessionQueryReturns(r) /\ UNCHANGED exceptSession
    \/ \E r \in {1} : SessionWriteReturns(r) /\ UNCHANGED exceptSession
    \/ \E r \in {1} : ActiveSessionsQueryReturns(r) /\ UNCHANGED exceptSession

InitSessionList == AIQuiet /\ PerfInit /\ EnvInit /\ KnowQuiet /\ SessionInit /\ ConfigQuiet

SpecSessionList == InitSessionList /\ [][NextSessionList]_vars

NextKnowMix ==
    \/ \E r \in KnProcs : GetStart(r) /\ UNCHANGED exceptKnow
    \/ \E r \in KnProcs : DirectStart(r) /\ UNCHANGED <<settled, exceptKnow>>
    \/ \E r \in KnProcs, i \in 1..MaxPages : MetaSettles(r, i) /\ UNCHANGED exceptKnow
    \/ \E r \in KnProcs : StaleCheckReturns(r) /\ UNCHANGED exceptKnow
    \/ \E r \in KnProcs, i \in 1..MaxPages :
            PageSettles(r, i) /\ UNCHANGED <<settled, exceptKnow>>
    \/ \E r \in KnProcs : FetchReturns(r) /\ UNCHANGED exceptKnow
    \/ \E p \in Pages : RemoteEdit(p) /\ UNCHANGED exceptKnow
    \/ NoKnInFlight /\ Tick(KnowTick) /\ UNCHANGED exceptKnow

InitKnowMix ==
    AIQuiet /\ PerfInit /\ EnvInit /\ KnowInit(SortedPageIdLists) /\ SessionQuiet /\ ConfigQuiet

SpecKnowMix == InitKnowMix /\ [][NextKnowMix]_vars

====
